---- MODULE Spec2Model ----
(***************************************************************************)
(* ImpactCoach: the Factor Repository and Impact Calculator                *)
(* (backend/services/impact_engine.py), the Recommendation Engine          *)
(* (backend/services/recommendation.py) and the Message Parser             *)
(* (backend/services/chatbot.py).                                          *)
(*                                                                         *)
(* Representation.                                                         *)
(*  - A Python str that the code inspects character by character (an item  *)
(*    key, a chat message, a keyword) is a sequence of Unicode code        *)
(*    points.  Strings the code only compares for equality (category,      *)
(*    subcategory, time_of_day, texts) are TLA+ strings.                   *)
(*  - A number is a decimal D(m, e), meaning m * 10^(-e).  Python floats   *)
(*    are modelled by exact decimals; the one place where the binary       *)
(*    representation decides an outcome, round() at an exact decimal tie,  *)
(*    is a nondeterministic choice (parameter up).                         *)
(***************************************************************************)
EXTENDS Integers, Sequences, FiniteSets, TLC

VARIABLES
  emission_loaded,  \* lru_cache of load_emission_factors holds the table
  product_loaded,   \* lru_cache of load_product_factors holds the table
  op,               \* the call whose result the caller holds, or "idle"
  args,             \* its arguments
  ret,              \* what it returned or raised, with the locals it computed
  cache,            \* per loader, what its lru_cache holds, as the threads see it
  thread,           \* per thread, the call it is in and its locals
  loader_runs,      \* per loader, the runs of its body since its last cache_clear
  calls,            \* the calls one thread completed, in order
  action_logs,      \* the rows of table action_logs, in insertion order
  next_id,          \* the id AUTOINCREMENT gives the next row
  held,             \* what the recommendation module and its caller hold
  earlier,          \* the get_recommendations calls so far that padded defaults
  ties_up,          \* the savings at a decimal tie that the floats round up
  session,          \* the attributes of one ChatSession
  added             \* the add_action calls on it since its last clear

\* what the threads of the Factor Repository work on
threadvars == <<cache, thread, loader_runs, calls>>

\* the Action Store
storevars == <<action_logs, next_id>>

\* the single caller of the sequential operations
callervars == <<emission_loaded, product_loaded, op, args, ret>>

\* the objects get_recommendations could reach
modulevars == <<held, earlier, ties_up>>

\* one ChatSession
sessionvars == <<session, added>>

vars == <<emission_loaded, product_loaded, op, args, ret, threadvars, storevars,
          modulevars, sessionvars>>

\* Python's None, where the other values are TLA+ strings
None == "None"

\* Python's None in a field of code-point strings: falsy, like ""
NoItem == <<>>

(***************************************************************************)
(* Strings as sequences of code points                                     *)
(***************************************************************************)
\* item keys, as the code and the reference data spell them
taxi_ice == <<116, 97, 120, 105, 95, 105, 99, 101>>
taxi_ev == <<116, 97, 120, 105, 95, 101, 118>>
bus == <<98, 117, 115>>
subway == <<115, 117, 98, 119, 97, 121>>
walking == <<119, 97, 108, 107, 105, 110, 103>>
bicycle == <<98, 105, 99, 121, 99, 108, 101>>
personal_car_gasoline == <<112, 101, 114, 115, 111, 110, 97, 108, 95, 99, 97, 114, 95, 103, 97, 115, 111, 108, 105, 110, 101>>
domestic_flight == <<100, 111, 109, 101, 115, 116, 105, 99, 95, 102, 108, 105, 103, 104, 116>>
train_ktx == <<116, 114, 97, 105, 110, 95, 107, 116, 120>>
car_gasoline == <<99, 97, 114, 95, 103, 97, 115, 111, 108, 105, 110, 101>>
car_ev == <<99, 97, 114, 95, 101, 118>>
motorcycle == <<109, 111, 116, 111, 114, 99, 121, 99, 108, 101>>
escooter == <<101, 115, 99, 111, 111, 116, 101, 114>>
electricity_kwh == <<101, 108, 101, 99, 116, 114, 105, 99, 105, 116, 121, 95, 107, 119, 104>>
electricity_kwh_peak == <<101, 108, 101, 99, 116, 114, 105, 99, 105, 116, 121, 95, 107, 119, 104, 95, 112, 101, 97, 107>>
electricity_kwh_offpeak == <<101, 108, 101, 99, 116, 114, 105, 99, 105, 116, 121, 95, 107, 119, 104, 95, 111, 102, 102, 112, 101, 97, 107>>
natural_gas_m3 == <<110, 97, 116, 117, 114, 97, 108, 95, 103, 97, 115, 95, 109, 51>>
hot_water_shower == <<104, 111, 116, 95, 119, 97, 116, 101, 114, 95, 115, 104, 111, 119, 101, 114>>
beef_meal == <<98, 101, 101, 102, 95, 109, 101, 97, 108>>
pork_meal == <<112, 111, 114, 107, 95, 109, 101, 97, 108>>
chicken_meal == <<99, 104, 105, 99, 107, 101, 110, 95, 109, 101, 97, 108>>
fish_meal == <<102, 105, 115, 104, 95, 109, 101, 97, 108>>
vegetarian_meal == <<118, 101, 103, 101, 116, 97, 114, 105, 97, 110, 95, 109, 101, 97, 108>>
vegan_meal == <<118, 101, 103, 97, 110, 95, 109, 101, 97, 108>>
coffee == <<99, 111, 102, 102, 101, 101>>
milk_liter == <<109, 105, 108, 107, 95, 108, 105, 116, 101, 114>>
oat_milk_liter == <<111, 97, 116, 95, 109, 105, 108, 107, 95, 108, 105, 116, 101, 114>>
tshirt_fastfashion == <<116, 115, 104, 105, 114, 116, 95, 102, 97, 115, 116, 102, 97, 115, 104, 105, 111, 110>>
tshirt_secondhand == <<116, 115, 104, 105, 114, 116, 95, 115, 101, 99, 111, 110, 100, 104, 97, 110, 100>>
jeans_fastfashion == <<106, 101, 97, 110, 115, 95, 102, 97, 115, 116, 102, 97, 115, 104, 105, 111, 110>>
jeans_secondhand == <<106, 101, 97, 110, 115, 95, 115, 101, 99, 111, 110, 100, 104, 97, 110, 100>>
sneakers_new == <<115, 110, 101, 97, 107, 101, 114, 115, 95, 110, 101, 119>>
sneakers_secondhand == <<115, 110, 101, 97, 107, 101, 114, 115, 95, 115, 101, 99, 111, 110, 100, 104, 97, 110, 100>>
smartphone_new == <<115, 109, 97, 114, 116, 112, 104, 111, 110, 101, 95, 110, 101, 119>>
smartphone_refurbished == <<115, 109, 97, 114, 116, 112, 104, 111, 110, 101, 95, 114, 101, 102, 117, 114, 98, 105, 115, 104, 101, 100>>
laptop_new == <<108, 97, 112, 116, 111, 112, 95, 110, 101, 119>>
laptop_refurbished == <<108, 97, 112, 116, 111, 112, 95, 114, 101, 102, 117, 114, 98, 105, 115, 104, 101, 100>>
plastic_bag == <<112, 108, 97, 115, 116, 105, 99, 95, 98, 97, 103>>
reusable_bag == <<114, 101, 117, 115, 97, 98, 108, 101, 95, 98, 97, 103>>
bottled_water_500ml == <<98, 111, 116, 116, 108, 101, 100, 95, 119, 97, 116, 101, 114, 95, 53, 48, 48, 109, 108>>
tap_water_500ml == <<116, 97, 112, 95, 119, 97, 116, 101, 114, 95, 53, 48, 48, 109, 108>>
nonexistent_item == <<110, 111, 110, 101, 120, 105, 115, 116, 101, 110, 116, 95, 105, 116, 101, 109>>

\* str.isspace() code points: what str.strip() removes
Whitespace ==
  (9..13) \cup (28..32) \cup {133, 160, 5760} \cup (8192..8202)
    \cup {8232, 8233, 8239, 8287, 12288}

\* str.lower() beyond ASCII, one code point to one: first, last, offset in
\* turn, every code point of first..last moves by offset (the Unicode case
\* mappings of CPython 3.11)
LowerRuns ==
  << 192, 214, 32,  216, 222, 32,  376, 376, -121,  385, 385, 210,  390, 390, 206,  393, 394, 205,
    398, 398, 79,  399, 399, 202,  400, 400, 203,  403, 403, 205,  404, 404, 207,  406, 406, 211,
    407, 407, 209,  412, 412, 211,  413, 413, 213,  415, 415, 214,  422, 422, 218,  425, 425, 218,
    430, 430, 218,  433, 434, 217,  439, 439, 219,  452, 452, 2,  455, 455, 2,  458, 458, 2,
    497, 497, 2,  502, 502, -97,  503, 503, -56,  544, 544, -130,  570, 570, 10795,
    573, 573, -163,  574, 574, 10792,  579, 579, -195,  580, 580, 69,  581, 581, 71,
    895, 895, 116,  902, 902, 38,  904, 906, 37,  908, 908, 64,  910, 911, 63,  913, 929, 32,
    931, 939, 32,  975, 975, 8,  1012, 1012, -60,  1017, 1017, -7,  1021, 1023, -130,
    1024, 1039, 80,  1040, 1071, 32,  1216, 1216, 15,  1329, 1366, 48,  4256, 4293, 7264,
    4295, 4295, 7264,  4301, 4301, 7264,  5024, 5103, 38864,  5104, 5109, 8,  7312, 7354, -3008,
    7357, 7359, -3008,  7838, 7838, -7615,  7944, 7951, -8,  7960, 7965, -8,  7976, 7983, -8,
    7992, 7999, -8,  8008, 8013, -8,  8025, 8025, -8,  8027, 8027, -8,  8029, 8029, -8,
    8031, 8031, -8,  8040, 8047, -8,  8072, 8079, -8,  8088, 8095, -8,  8104, 8111, -8,
    8120, 8121, -8,  8122, 8123, -74,  8124, 8124, -9,  8136, 8139, -86,  8140, 8140, -9,
    8152, 8153, -8,  8154, 8155, -100,  8168, 8169, -8,  8170, 8171, -112,  8172, 8172, -7,
    8184, 8185, -128,  8186, 8187, -126,  8188, 8188, -9,  8486, 8486, -7517,  8490, 8490, -8383,
    8491, 8491, -8262,  8498, 8498, 28,  8544, 8559, 16,  9398, 9423, 26,  11264, 11311, 48,
    11362, 11362, -10743,  11363, 11363, -3814,  11364, 11364, -10727,  11373, 11373, -10780,
    11374, 11374, -10749,  11375, 11375, -10783,  11376, 11376, -10782,  11390, 11391, -10815,
    42877, 42877, -35332,  42893, 42893, -42280,  42922, 42922, -42308,  42923, 42923, -42319,
    42924, 42924, -42315,  42925, 42925, -42305,  42926, 42926, -42308,  42928, 42928, -42258,
    42929, 42929, -42282,  42930, 42930, -42261,  42931, 42931, 928,  42948, 42948, -48,
    42949, 42949, -42307,  42950, 42950, -35384,  65313, 65338, 32,  66560, 66599, 40,
    66736, 66771, 40,  66928, 66938, 39,  66940, 66954, 39,  66956, 66962, 39,  66964, 66965, 39,
    68736, 68786, 64,  71840, 71871, 32,  93760, 93791, 32,  125184, 125217, 34 >>

\* str.lower(): first, last in turn; upper- and lower-case letters alternate,
\* and first, first + 2, ..., last each move by one
LowerPairs ==
  << 256, 302,  306, 310,  313, 327,  330, 374,  377, 381,  386, 388,  391, 391,  395, 395,
    401, 401,  408, 408,  416, 420,  423, 423,  428, 428,  431, 431,  435, 437,  440, 440,
    444, 444,  453, 453,  456, 456,  459, 475,  478, 494,  498, 500,  504, 542,  546, 562,
    571, 571,  577, 577,  582, 590,  880, 882,  886, 886,  984, 1006,  1015, 1015,  1018, 1018,
    1120, 1152,  1162, 1214,  1217, 1229,  1232, 1326,  7680, 7828,  7840, 7934,  8579, 8579,
    11360, 11360,  11367, 11371,  11378, 11378,  11381, 11381,  11392, 11490,  11499, 11501,
    11506, 11506,  42560, 42604,  42624, 42650,  42786, 42798,  42802, 42862,  42873, 42875,
    42878, 42886,  42891, 42891,  42896, 42898,  42902, 42920,  42932, 42946,  42951, 42953,
    42960, 42960,  42966, 42968,  42997, 42997 >>

\* first, last in turn: the cased code points that are not case-ignorable
CasedRuns ==
  << 65, 90,  97, 122,  170, 170,  181, 181,  186, 186,  192, 214,  216, 246,  248, 442,  444, 447,
    452, 659,  661, 687,  880, 883,  886, 887,  891, 893,  895, 895,  902, 902,  904, 906,
    908, 908,  910, 929,  931, 1013,  1015, 1153,  1162, 1327,  1329, 1366,  1376, 1416,
    4256, 4293,  4295, 4295,  4301, 4301,  4304, 4346,  4349, 4351,  5024, 5109,  5112, 5117,
    7296, 7304,  7312, 7354,  7357, 7359,  7424, 7467,  7531, 7543,  7545, 7578,  7680, 7957,
    7960, 7965,  7968, 8005,  8008, 8013,  8016, 8023,  8025, 8025,  8027, 8027,  8029, 8029,
    8031, 8061,  8064, 8116,  8118, 8124,  8126, 8126,  8130, 8132,  8134, 8140,  8144, 8147,
    8150, 8155,  8160, 8172,  8178, 8180,  8182, 8188,  8450, 8450,  8455, 8455,  8458, 8467,
    8469, 8469,  8473, 8477,  8484, 8484,  8486, 8486,  8488, 8488,  8490, 8493,  8495, 8500,
    8505, 8505,  8508, 8511,  8517, 8521,  8526, 8526,  8544, 8575,  8579, 8580,  9398, 9449,
    11264, 11387,  11390, 11492,  11499, 11502,  11506, 11507,  11520, 11557,  11559, 11559,
    11565, 11565,  42560, 42605,  42624, 42651,  42786, 42863,  42865, 42887,  42891, 42894,
    42896, 42954,  42960, 42961,  42963, 42963,  42965, 42969,  42997, 42998,  43002, 43002,
    43824, 43866,  43872, 43880,  43888, 43967,  64256, 64262,  64275, 64279,  65313, 65338,
    65345, 65370,  66560, 66639,  66736, 66771,  66776, 66811,  66928, 66938,  66940, 66954,
    66956, 66962,  66964, 66965,  66967, 66977,  66979, 66993,  66995, 67001,  67003, 67004,
    68736, 68786,  68800, 68850,  71840, 71903,  93760, 93823,  119808, 119892,  119894, 119964,
    119966, 119967,  119970, 119970,  119973, 119974,  119977, 119980,  119982, 119993,
    119995, 119995,  119997, 120003,  120005, 120069,  120071, 120074,  120077, 120084,
    120086, 120092,  120094, 120121,  120123, 120126,  120128, 120132,  120134, 120134,
    120138, 120144,  120146, 120485,  120488, 120512,  120514, 120538,  120540, 120570,
    120572, 120596,  120598, 120628,  120630, 120654,  120656, 120686,  120688, 120712,
    120714, 120744,  120746, 120770,  120772, 120779,  122624, 122633,  122635, 122654,
    125184, 125251,  127280, 127305,  127312, 127337,  127344, 127369 >>

\* first, last in turn: the case-ignorable code points
CaseIgnorableRuns ==
  << 39, 39,  46, 46,  58, 58,  94, 94,  96, 96,  168, 168,  173, 173,  175, 175,  180, 180,
    183, 184,  688, 879,  884, 885,  890, 890,  900, 901,  903, 903,  1155, 1161,  1369, 1369,
    1375, 1375,  1425, 1469,  1471, 1471,  1473, 1474,  1476, 1477,  1479, 1479,  1524, 1524,
    1536, 1541,  1552, 1562,  1564, 1564,  1600, 1600,  1611, 1631,  1648, 1648,  1750, 1757,
    1759, 1768,  1770, 1773,  1807, 1807,  1809, 1809,  1840, 1866,  1958, 1968,  2027, 2037,
    2042, 2042,  2045, 2045,  2070, 2093,  2137, 2139,  2184, 2184,  2192, 2193,  2200, 2207,
    2249, 2306,  2362, 2362,  2364, 2364,  2369, 2376,  2381, 2381,  2385, 2391,  2402, 2403,
    2417, 2417,  2433, 2433,  2492, 2492,  2497, 2500,  2509, 2509,  2530, 2531,  2558, 2558,
    2561, 2562,  2620, 2620,  2625, 2626,  2631, 2632,  2635, 2637,  2641, 2641,  2672, 2673,
    2677, 2677,  2689, 2690,  2748, 2748,  2753, 2757,  2759, 2760,  2765, 2765,  2786, 2787,
    2810, 2815,  2817, 2817,  2876, 2876,  2879, 2879,  2881, 2884,  2893, 2893,  2901, 2902,
    2914, 2915,  2946, 2946,  3008, 3008,  3021, 3021,  3072, 3072,  3076, 3076,  3132, 3132,
    3134, 3136,  3142, 3144,  3146, 3149,  3157, 3158,  3170, 3171,  3201, 3201,  3260, 3260,
    3263, 3263,  3270, 3270,  3276, 3277,  3298, 3299,  3328, 3329,  3387, 3388,  3393, 3396,
    3405, 3405,  3426, 3427,  3457, 3457,  3530, 3530,  3538, 3540,  3542, 3542,  3633, 3633,
    3636, 3642,  3654, 3662,  3761, 3761,  3764, 3772,  3782, 3782,  3784, 3789,  3864, 3865,
    3893, 3893,  3895, 3895,  3897, 3897,  3953, 3966,  3968, 3972,  3974, 3975,  3981, 3991,
    3993, 4028,  4038, 4038,  4141, 4144,  4146, 4151,  4153, 4154,  4157, 4158,  4184, 4185,
    4190, 4192,  4209, 4212,  4226, 4226,  4229, 4230,  4237, 4237,  4253, 4253,  4348, 4348,
    4957, 4959,  5906, 5908,  5938, 5939,  5970, 5971,  6002, 6003,  6068, 6069,  6071, 6077,
    6086, 6086,  6089, 6099,  6103, 6103,  6109, 6109,  6155, 6159,  6211, 6211,  6277, 6278,
    6313, 6313,  6432, 6434,  6439, 6440,  6450, 6450,  6457, 6459,  6679, 6680,  6683, 6683,
    6742, 6742,  6744, 6750,  6752, 6752,  6754, 6754,  6757, 6764,  6771, 6780,  6783, 6783,
    6823, 6823,  6832, 6862,  6912, 6915,  6964, 6964,  6966, 6970,  6972, 6972,  6978, 6978,
    7019, 7027,  7040, 7041,  7074, 7077,  7080, 7081,  7083, 7085,  7142, 7142,  7144, 7145,
    7149, 7149,  7151, 7153,  7212, 7219,  7222, 7223,  7288, 7293,  7376, 7378,  7380, 7392,
    7394, 7400,  7405, 7405,  7412, 7412,  7416, 7417,  7468, 7530,  7544, 7544,  7579, 7679,
    8125, 8125,  8127, 8129,  8141, 8143,  8157, 8159,  8173, 8175,  8189, 8190,  8203, 8207,
    8216, 8217,  8228, 8228,  8231, 8231,  8234, 8238,  8288, 8292,  8294, 8303,  8305, 8305,
    8319, 8319,  8336, 8348,  8400, 8432,  11388, 11389,  11503, 11505,  11631, 11631,
    11647, 11647,  11744, 11775,  11823, 11823,  12293, 12293,  12330, 12333,  12337, 12341,
    12347, 12347,  12441, 12446,  12540, 12542,  40981, 40981,  42232, 42237,  42508, 42508,
    42607, 42610,  42612, 42621,  42623, 42623,  42652, 42655,  42736, 42737,  42752, 42785,
    42864, 42864,  42888, 42890,  42994, 42996,  43000, 43001,  43010, 43010,  43014, 43014,
    43019, 43019,  43045, 43046,  43052, 43052,  43204, 43205,  43232, 43249,  43263, 43263,
    43302, 43309,  43335, 43345,  43392, 43394,  43443, 43443,  43446, 43449,  43452, 43453,
    43471, 43471,  43493, 43494,  43561, 43566,  43569, 43570,  43573, 43574,  43587, 43587,
    43596, 43596,  43632, 43632,  43644, 43644,  43696, 43696,  43698, 43700,  43703, 43704,
    43710, 43711,  43713, 43713,  43741, 43741,  43756, 43757,  43763, 43764,  43766, 43766,
    43867, 43871,  43881, 43883,  44005, 44005,  44008, 44008,  44013, 44013,  64286, 64286,
    64434, 64450,  65024, 65039,  65043, 65043,  65056, 65071,  65106, 65106,  65109, 65109,
    65279, 65279,  65287, 65287,  65294, 65294,  65306, 65306,  65342, 65342,  65344, 65344,
    65392, 65392,  65438, 65439,  65507, 65507,  65529, 65531,  66045, 66045,  66272, 66272,
    66422, 66426,  67456, 67461,  67463, 67504,  67506, 67514,  68097, 68099,  68101, 68102,
    68108, 68111,  68152, 68154,  68159, 68159,  68325, 68326,  68900, 68903,  69291, 69292,
    69446, 69456,  69506, 69509,  69633, 69633,  69688, 69702,  69744, 69744,  69747, 69748,
    69759, 69761,  69811, 69814,  69817, 69818,  69821, 69821,  69826, 69826,  69837, 69837,
    69888, 69890,  69927, 69931,  69933, 69940,  70003, 70003,  70016, 70017,  70070, 70078,
    70089, 70092,  70095, 70095,  70191, 70193,  70196, 70196,  70198, 70199,  70206, 70206,
    70367, 70367,  70371, 70378,  70400, 70401,  70459, 70460,  70464, 70464,  70502, 70508,
    70512, 70516,  70712, 70719,  70722, 70724,  70726, 70726,  70750, 70750,  70835, 70840,
    70842, 70842,  70847, 70848,  70850, 70851,  71090, 71093,  71100, 71101,  71103, 71104,
    71132, 71133,  71219, 71226,  71229, 71229,  71231, 71232,  71339, 71339,  71341, 71341,
    71344, 71349,  71351, 71351,  71453, 71455,  71458, 71461,  71463, 71467,  71727, 71735,
    71737, 71738,  71995, 71996,  71998, 71998,  72003, 72003,  72148, 72151,  72154, 72155,
    72160, 72160,  72193, 72202,  72243, 72248,  72251, 72254,  72263, 72263,  72273, 72278,
    72281, 72283,  72330, 72342,  72344, 72345,  72752, 72758,  72760, 72765,  72767, 72767,
    72850, 72871,  72874, 72880,  72882, 72883,  72885, 72886,  73009, 73014,  73018, 73018,
    73020, 73021,  73023, 73029,  73031, 73031,  73104, 73105,  73109, 73109,  73111, 73111,
    73459, 73460,  78896, 78904,  92912, 92916,  92976, 92982,  92992, 92995,  94031, 94031,
    94095, 94111,  94176, 94177,  94179, 94180,  110576, 110579,  110581, 110587,  110589, 110590,
    113821, 113822,  113824, 113827,  118528, 118573,  118576, 118598,  119143, 119145,
    119155, 119170,  119173, 119179,  119210, 119213,  119362, 119364,  121344, 121398,
    121403, 121452,  121461, 121461,  121476, 121476,  121499, 121503,  121505, 121519,
    122880, 122886,  122888, 122904,  122907, 122913,  122915, 122916,  122918, 122922,
    123184, 123197,  123566, 123566,  123628, 123631,  125136, 125142,  125252, 125259,
    127995, 127999,  917505, 917505,  917536, 917631,  917760, 917999 >>

\* the runs of rs, w numbers a run, that code point c lies in
RunsAt(c, rs, w) ==
  {i \in 0..(Len(rs) \div w - 1) : rs[w * i + 1] <= c /\ c <= rs[w * i + 2]}

\* whether code point c lies in one of the first..last ranges of rs
InRuns(c, rs) == RunsAt(c, rs, 2) # {}

\* str.lower() on one code point with a one-code-point result
LowerChar(c) ==
  IF c < 192 THEN (IF c \in 65..90 THEN c + 32 ELSE c)
  ELSE LET runs == RunsAt(c, LowerRuns, 3)
       IN  IF runs # {}
             THEN c + LowerRuns[3 * (CHOOSE i \in runs : TRUE) + 3]
             ELSE IF \E i \in RunsAt(c, LowerPairs, 2) : (c - LowerPairs[2 * i + 1]) % 2 = 0
                    THEN c + 1
                    ELSE c

\* str.lower() on one code point: U+0130, capital I with dot above, becomes
\* the two code points U+0069 U+0307
LowerCodes(c) == IF c = 304 THEN <<105, 775>> ELSE <<LowerChar(c)>>

UpperChar(c) == IF c \in 97..122 THEN c - 32 ELSE c

\* the nearest position from i in direction step (-1 or 1) whose code point
\* is not case-ignorable; 0 or Len(s) + 1 when there is none
RECURSIVE SkipIgnorable(_, _, _)
SkipIgnorable(s, i, step) ==
  IF i < 1 \/ i > Len(s) \/ ~InRuns(s[i], CaseIgnorableRuns) THEN i
  ELSE SkipIgnorable(s, i + step, step)

\* whether the capital sigma at position i ends a word: a cased letter
\* before it and none after it, case-ignorable code points skipped
FinalSigma(s, i) ==
  LET before == SkipIgnorable(s, i - 1, -1)
      after == SkipIgnorable(s, i + 1, 1)
  IN  /\ before >= 1
      /\ InRuns(s[before], CasedRuns)
      /\ after > Len(s) \/ ~InRuns(s[after], CasedRuns)

\* str.lower() from position i on: U+03A3, capital sigma, becomes the final
\* sigma U+03C2 at the end of a word and U+03C3 elsewhere
RECURSIVE LowerFrom(_, _)
LowerFrom(s, i) ==
  IF i > Len(s) THEN <<>>
  ELSE (IF s[i] = 931 THEN (IF FinalSigma(s, i) THEN <<962>> ELSE <<963>>)
        ELSE LowerCodes(s[i]))
       \o LowerFrom(s, i + 1)

\* str.lower()
Lower(s) == LowerFrom(s, 1)

RECURSIVE LStrip(_)
LStrip(s) ==
  IF s # <<>> /\ Head(s) \in Whitespace THEN LStrip(Tail(s)) ELSE s

RECURSIVE RStrip(_)
RStrip(s) ==
  IF s # <<>> /\ s[Len(s)] \in Whitespace
    THEN RStrip(SubSeq(s, 1, Len(s) - 1))
    ELSE s

\* str.strip()
Strip(s) == RStrip(LStrip(s))

(***************************************************************************)
(* Decimals                                                                *)
(***************************************************************************)
D(m, e) == [m |-> m, e |-> e]

RECURSIVE Pow10(_)
Pow10(n) == IF n = 0 THEN 1 ELSE 10 * Pow10(n - 1)

Mul(a, b) == D(a.m * b.m, a.e + b.e)

\* a - b
Sub(a, b) ==
  LET e == IF a.e >= b.e THEN a.e ELSE b.e
  IN  D(a.m * Pow10(e - a.e) - b.m * Pow10(e - b.e), e)

\* a + b
Add(a, b) ==
  LET e == IF a.e >= b.e THEN a.e ELSE b.e
  IN  D(a.m * Pow10(e - a.e) + b.m * Pow10(e - b.e), e)

\* the decimal x is a dyadic rational (5^e divides m), so the double written
\* x is x itself
Dyadic(x) == x.m % (Pow10(x.e) \div (2 ^ x.e)) = 0

\* A double is written as the decimal [m, e] its value stands for.  The sum of
\* two doubles is the double nearest to their real sum, which need not be the
\* double nearest to the sum of the decimals (0.1 + 0.2 is
\* 0.30000000000000004): such a sum carries a field off, 1 when it lies
\* above the double nearest to the decimal and -1 when it lies below.
Off(x) == IF "off" \in DOMAIN x THEN x.off ELSE 0

\* the values of off
Offs == {-1, 0, 1}

\* a + b in doubles, off saying where the sum falls.  Adding 0 changes
\* nothing, the sum of two dyadic rationals of this size is exact, and so is
\* the double of a double, which is the double nearest to the doubled
\* decimal; off decides the others.
FloatAdd(a, b, off) ==
  IF a.m = 0 /\ Off(a) = 0 THEN b
  ELSE IF b.m = 0 /\ Off(b) = 0 THEN a
  ELSE IF \/ off = 0
          \/ Off(a) = 0 /\ Off(b) = 0 /\ Dyadic(a) /\ Dyadic(b)
          \/ Off(a) = 0 /\ Off(b) = 0 /\ Sub(a, b).m = 0
    THEN Add(a, b)
  ELSE [m |-> Add(a, b).m, e |-> Add(a, b).e, off |-> off]

\* a < b for doubles
FloatLt(a, b) == Sub(a, b).m < 0 \/ (Sub(a, b).m = 0 /\ Off(a) < Off(b))

\* a = b as decimals
NumEq(a, b) == Sub(a, b).m = 0

\* a < b as decimals
NumLt(a, b) == Sub(a, b).m < 0

Zero == D(0, 0)

\* max(0, x)
Max0(x) == IF x.m < 0 THEN Zero ELSE x

\* faulty variant: truncation instead of rounding
RoundTrunc(x, k, up) ==
  IF x.e <= k THEN D(x.m * Pow10(k - x.e), k)
  ELSE D(x.m \div Pow10(x.e - k), k)

\* round(x, k) for x >= 0, as a decimal with exactly k places.  At an exact
\* decimal tie the double nearest to the float product lies just below or
\* just above the tie (or, when representable, on it), and round() follows
\* the double: up says which way.
Round(x, k, up) ==
  IF x.e <= k THEN D(x.m * Pow10(k - x.e), k)
  ELSE LET p == Pow10(x.e - k)
           q == x.m \div p
           r == x.m % p
       IN  IF 2 * r < p THEN D(q, k)
           ELSE IF 2 * r > p THEN D(q + 1, k)
           ELSE D(q + (IF up THEN 1 ELSE 0), k)

(***************************************************************************)
(* Reference data: data/emission_factors.json, data/product_factors.json.  *)
(* A JSON object is a sequence of <<key, value>> pairs in declaration      *)
(* order (Python dicts keep it); an entry is a record holding the fields   *)
(* the file gives.                                                         *)
(***************************************************************************)
emission_factors ==
  [ mobility |->
      << <<taxi_ice, [co2e_kg_per_km |-> D(21, 2), water_l_per_km |-> D(5, 1),
                        description |-> "Taxi (gasoline)"]>>,
         <<taxi_ev, [co2e_kg_per_km |-> D(5, 2), water_l_per_km |-> D(2, 1),
                       description |-> "Taxi (electric)"]>>,
         <<bus, [co2e_kg_per_km |-> D(89, 3), water_l_per_km |-> D(1, 1),
                   description |-> "City bus"]>>,
         <<subway, [co2e_kg_per_km |-> D(35, 3), water_l_per_km |-> D(5, 2),
                      description |-> "Subway"]>>,
         <<walking, [co2e_kg_per_km |-> D(0, 0), water_l_per_km |-> D(0, 0),
                       description |-> "Walking"]>>,
         <<bicycle, [co2e_kg_per_km |-> D(0, 0), description |-> "Bicycle"]>>,
         <<personal_car_gasoline,
           [co2e_kg_per_km |-> D(192, 3), water_l_per_km |-> D(45, 2),
            description |-> "Personal car (gasoline)"]>>,
         <<train_ktx, [co2e_kg_per_km |-> D(28, 3), water_l_per_km |-> D(5, 2),
                         description |-> "KTX"]>>,
         <<domestic_flight,
           [co2e_kg_per_km |-> D(255, 3), water_l_per_km |-> D(6, 1),
            description |-> "Domestic flight"]>> >>,
    home_energy |->
      << <<electricity_kwh,
           [co2e_kg_per_unit |-> D(459, 3), unit |-> "kWh",
            description |-> "Grid electricity"]>>,
         <<electricity_kwh_peak,
           [co2e_kg_per_unit |-> D(601, 3), unit |-> "kWh",
            description |-> "Grid electricity, peak"]>>,
         <<electricity_kwh_offpeak,
           [co2e_kg_per_unit |-> D(381, 3), unit |-> "kWh",
            description |-> "Grid electricity, off-peak"]>>,
         <<natural_gas_m3,
           [co2e_kg_per_unit |-> D(2176, 3), description |-> "Natural gas"]>> >>,
    metadata |-> << <<"version", "1.0">> >> ]

product_factors ==
  [ purchase |->
      << <<"food",
           << <<beef_meal, [co2e_kg_per_unit |-> D(65, 1), water_l_per_unit |-> D(1850, 0),
                              unit |-> "meal", description |-> "Beef meal"]>>,
              <<chicken_meal, [co2e_kg_per_unit |-> D(11, 1), water_l_per_unit |-> D(425, 0),
                                 unit |-> "meal", description |-> "Chicken meal"]>>,
              <<vegetarian_meal, [co2e_kg_per_unit |-> D(4, 1), water_l_per_unit |-> D(200, 0),
                                    unit |-> "meal", description |-> "Vegetarian meal"]>>,
              <<coffee, [co2e_kg_per_unit |-> D(21, 2), water_l_per_unit |-> D(140, 0),
                           unit |-> "cup", description |-> "Coffee"]>>,
              <<milk_liter, [co2e_kg_per_unit |-> D(32, 1), water_l_per_unit |-> D(628, 0),
                               unit |-> "liter", description |-> "Milk"]>> >> >>,
         <<"fashion",
           << <<tshirt_fastfashion,
                [co2e_kg_per_unit |-> D(55, 1), water_l_per_unit |-> D(2700, 0),
                 unit |-> "item", description |-> "T-shirt (fast fashion)"]>>,
              <<tshirt_secondhand,
                [co2e_kg_per_unit |-> D(5, 1), water_l_per_unit |-> D(50, 0),
                 description |-> "T-shirt (secondhand)"]>>,
              <<jeans_fastfashion,
                [co2e_kg_per_unit |-> D(335, 1), water_l_per_unit |-> D(7500, 0),
                 unit |-> "item", description |-> "Jeans (fast fashion)"]>>,
              <<reusable_bag,
                [co2e_kg_per_unit |-> D(5, 1), water_l_per_unit |-> D(100, 0),
                 unit |-> "item", description |-> "Tote bag"]>> >> >>,
         <<"household",
           << <<plastic_bag, [co2e_kg_per_unit |-> D(33, 3), water_l_per_unit |-> D(5, 1),
                                unit |-> "item", description |-> "Plastic bag"]>>,
              <<reusable_bag, [co2e_kg_per_unit |-> D(2, 3), water_l_per_unit |-> D(1, 1),
                                 unit |-> "use", description |-> "Reusable bag"]>>,
              <<bottled_water_500ml,
                [co2e_kg_per_unit |-> D(83, 3), water_l_per_unit |-> D(15, 1),
                 unit |-> "bottle", description |-> "Bottled water"]>> >> >> >>,
    metadata |-> << <<"version", "1.0">> >> ]

\* @lru_cache load_emission_factors(): the parsed file
load_emission_factors == emission_factors

\* @lru_cache load_product_factors(): the parsed file
load_product_factors == product_factors

\* key in d, for a JSON object d
HasKey(d, key) == \E i \in 1..Len(d) : d[i][1] = key

\* d[key]
Lookup(d, key) == d[CHOOSE i \in 1..Len(d) : d[i][1] = key][2]

\* dict.get(field, default) on an entry
Get(entry, field, default) ==
  IF field \in DOMAIN entry THEN entry[field] ELSE default

(***************************************************************************)
(* Factor Repository                                                       *)
(***************************************************************************)
Raised(e) == [exc |-> e]
Returned(v) == [exc |-> "none", value |-> v]
FactorNotFoundError == Raised("FactorNotFoundError")

\* faulty variant: a lookup that defaults to a zero factor
DefaultZeroFactor ==
  Returned([co2e_per_unit |-> Zero, water_per_unit |-> Zero,
            unit |-> "unit", description |-> ""])

\* the raise that ends get_factor when nothing was returned
RaiseFactorNotFound == FactorNotFoundError

\* faulty variant: the scan returns the last subcategory that holds item
ScanSubcategoriesLast(purchase_data, item, i) ==
  LET hits == {j \in i..Len(purchase_data) :
                 purchase_data[j][1] # "metadata" /\ HasKey(purchase_data[j][2], item)}
  IN  IF hits = {} THEN RaiseFactorNotFound
      ELSE LET last == CHOOSE j \in hits : \A k \in hits : k <= j
               factor_data == Lookup(purchase_data[last][2], item)
           IN  Returned([co2e_per_unit |-> Get(factor_data, "co2e_kg_per_unit", Zero),
                         water_per_unit |-> Get(factor_data, "water_l_per_unit", Zero),
                         unit |-> Get(factor_data, "unit", "unit"),
                         description |-> Get(factor_data, "description", "")])

\* the first subcategory that holds item, after skipping "metadata"
RECURSIVE ScanSubcategories(_, _, _)
ScanSubcategories(purchase_data, item, i) ==
  IF i > Len(purchase_data) THEN RaiseFactorNotFound
  ELSE IF purchase_data[i][1] # "metadata" /\ HasKey(purchase_data[i][2], item)
    THEN LET factor_data == Lookup(purchase_data[i][2], item)
         IN  Returned([co2e_per_unit |-> Get(factor_data, "co2e_kg_per_unit", Zero),
                       water_per_unit |-> Get(factor_data, "water_l_per_unit", Zero),
                       unit |-> Get(factor_data, "unit", "unit"),
                       description |-> Get(factor_data, "description", "")])
    ELSE ScanSubcategories(purchase_data, item, i + 1)

\* faulty variant: trims but keeps the letter case
NormalizeNoLower(item) == Strip(item)

\* item.lower().strip()
Normalize(item) == Strip(Lower(item))

\* get_factor from the category dispatch on, item normalised
LookupFactor(category, item, subcategory) ==
  IF category = "mobility" /\ HasKey(load_emission_factors.mobility, item)
    THEN LET factor_data == Lookup(load_emission_factors.mobility, item)
         IN  Returned([co2e_per_unit |-> Get(factor_data, "co2e_kg_per_km", Zero),
                       water_per_unit |-> Get(factor_data, "water_l_per_km", Zero),
                       unit |-> "km",
                       description |-> Get(factor_data, "description", "")])
  ELSE IF category = "home_energy" /\ HasKey(load_emission_factors.home_energy, item)
    THEN LET factor_data == Lookup(load_emission_factors.home_energy, item)
         IN  Returned([co2e_per_unit |-> Get(factor_data, "co2e_kg_per_unit", Zero),
                       water_per_unit |-> Zero,
                       unit |-> Get(factor_data, "unit", "unit"),
                       description |-> Get(factor_data, "description", "")])
  ELSE IF category = "purchase"
    THEN LET purchase_data == load_product_factors.purchase IN
         IF /\ subcategory \notin {None, ""}
            /\ HasKey(purchase_data, subcategory)
            /\ HasKey(Lookup(purchase_data, subcategory), item)
           THEN LET factor_data == Lookup(Lookup(purchase_data, subcategory), item)
                IN  Returned([co2e_per_unit |-> Get(factor_data, "co2e_kg_per_unit", Zero),
                              water_per_unit |-> Get(factor_data, "water_l_per_unit", Zero),
                              unit |-> Get(factor_data, "unit", "unit"),
                              description |-> Get(factor_data, "description", "")])
           ELSE ScanSubcategories(purchase_data, item, 1)
  ELSE RaiseFactorNotFound

\* get_factor(category, item, subcategory): item = item.lower().strip(), then
\* the lookup
get_factor(category, item, subcategory) ==
  LookupFactor(category, Normalize(item), subcategory)

\* which caches a get_factor(category, ...) call fills
LoadsEmission(category) == category \in {"mobility", "home_energy"}
LoadsProduct(category) == category = "purchase"

\* dict.get(key, {}) on a parsed file of which the top-level keys in visible
\* are populated
Section(table, visible, key) == IF key \in visible THEN table[key] ELSE <<>>

\* the entries get_all_factors appends for one purchase subcategory
PurchaseEntries(subcategory, items) ==
  [i \in 1..Len(items) |->
     [item |-> items[i][1],
      category |-> "purchase",
      subcategory |-> subcategory,
      co2e_per_unit |-> Get(items[i][2], "co2e_kg_per_unit", Zero),
      water_per_unit |-> Get(items[i][2], "water_l_per_unit", Zero),
      unit |-> Get(items[i][2], "unit", "unit"),
      description |-> Get(items[i][2], "description", "")]]

\* the loop over the purchase subcategories from the i-th on, "metadata"
\* skipped
RECURSIVE PurchaseFactors(_, _)
PurchaseFactors(purchase_data, i) ==
  IF i > Len(purchase_data) THEN <<>>
  ELSE IF purchase_data[i][1] = "metadata" THEN PurchaseFactors(purchase_data, i + 1)
  ELSE PurchaseEntries(purchase_data[i][1], purchase_data[i][2])
         \o PurchaseFactors(purchase_data, i + 1)

\* get_all_factors() on tables of which the top-level keys in seen_emission
\* and seen_product are populated
AllFactors(seen_emission, seen_product) ==
  LET mobility == Section(load_emission_factors, seen_emission, "mobility")
      home_energy == Section(load_emission_factors, seen_emission, "home_energy")
      purchase == Section(load_product_factors, seen_product, "purchase")
  IN  [mobility |->
         [i \in 1..Len(mobility) |->
            [item |-> mobility[i][1],
             category |-> "mobility",
             subcategory |-> None,
             co2e_per_unit |-> Get(mobility[i][2], "co2e_kg_per_km", Zero),
             water_per_unit |-> Get(mobility[i][2], "water_l_per_km", Zero),
             unit |-> "km",
             description |-> Get(mobility[i][2], "description", "")]],
       home_energy |->
         [i \in 1..Len(home_energy) |->
            [item |-> home_energy[i][1],
             category |-> "home_energy",
             subcategory |-> None,
             co2e_per_unit |-> Get(home_energy[i][2], "co2e_kg_per_unit", Zero),
             water_per_unit |-> Zero,
             unit |-> Get(home_energy[i][2], "unit", "unit"),
             description |-> Get(home_energy[i][2], "description", "")]],
       purchase |-> PurchaseFactors(purchase, 1)]

\* faulty variant: the purchase entries are listed once per subcategory pass
\* and once more by the scan
get_all_factors_twice ==
  LET all == AllFactors(DOMAIN load_emission_factors, DOMAIN load_product_factors)
  IN  [all EXCEPT !.purchase = @ \o PurchaseEntries("food", Lookup(load_product_factors.purchase, "food"))]

\* get_all_factors()
get_all_factors ==
  AllFactors(DOMAIN load_emission_factors, DOMAIN load_product_factors)

(***************************************************************************)
(* Benchmarks                                                              *)
(***************************************************************************)
get_category_benchmark(category) ==
  IF category = "mobility"
    THEN [avg_daily_co2e_kg |-> D(35, 1), avg_daily_water_l |-> D(80, 1),
          description |-> "Average Korean daily mobility footprint"]
  ELSE IF category = "purchase"
    THEN [avg_daily_co2e_kg |-> D(42, 1), avg_daily_water_l |-> D(2500, 0),
          description |-> "Average Korean daily consumption footprint"]
  ELSE IF category = "home_energy"
    THEN [avg_daily_co2e_kg |-> D(28, 1), avg_daily_water_l |-> Zero,
          description |-> "Average Korean household daily energy footprint (per person)"]
  ELSE [avg_daily_co2e_kg |-> Zero, avg_daily_water_l |-> Zero]

\* num and den on a common scale: <<a, b>> with num / den = a / b
Scaled(num, den) ==
  LET e == IF num.e >= den.e THEN num.e ELSE den.e
  IN  <<num.m * Pow10(e - num.e), den.m * Pow10(e - den.e)>>

\* <<a, b>> with a / b = |num| * 10^k / den, den > 0: tens are taken out of
\* the denominator while it has them
RECURSIVE Shifted(_, _, _)
Shifted(a, b, k) ==
  IF k = 0 THEN <<a, b>>
  ELSE IF b % 10 = 0 THEN Shifted(a, b \div 10, k - 1)
  ELSE Shifted(a * 10, b, k - 1)

ShiftedMagnitude(num, den, k) ==
  LET ab == Scaled(num, den)
  IN  Shifted(IF ab[1] < 0 THEN -ab[1] ELSE ab[1], ab[2], k)

\* whether round(num / den, k) stands on an exact decimal tie, den > 0
IsRatioTie(num, den, k) ==
  LET nb == ShiftedMagnitude(num, den, k)
  IN  2 * (nb[1] % nb[2]) = nb[2]

\* round(num / den, k) for den > 0, num of either sign; up as in Round, for
\* the magnitude
RoundRatio(num, den, k, up) ==
  LET nb == ShiftedMagnitude(num, den, k)
      q == nb[1] \div nb[2]
      r == nb[1] % nb[2]
  IN  D((IF num.m < 0 THEN -1 ELSE 1)
          * (IF 2 * r < nb[2] THEN q
             ELSE IF 2 * r > nb[2] THEN q + 1
             ELSE q + (IF up THEN 1 ELSE 0)), k)

\* round((ratio - 1) * 100, 1), ratio = actual / benchmark if benchmark > 0
\* else 0
PercentVsAverage(actual, benchmark, up) ==
  IF NumLt(Zero, benchmark)
    THEN RoundRatio(Sub(actual, benchmark), [benchmark EXCEPT !.e = @ + 2], 1, up)
    ELSE D(-1000, 1)

\* up = <<co2e tie, water tie>>
compare_to_benchmark(category, co2e_kg, water_l, up) ==
  LET benchmark == get_category_benchmark(category)
      co2e_benchmark == Get(benchmark, "avg_daily_co2e_kg", D(1, 0))
      water_benchmark == Get(benchmark, "avg_daily_water_l", D(1, 0))
  IN  Returned([co2e_vs_avg_percent |-> PercentVsAverage(co2e_kg, co2e_benchmark, up[1]),
                water_vs_avg_percent |-> PercentVsAverage(water_l, water_benchmark, up[2]),
                co2e_benchmark_kg |-> co2e_benchmark,
                water_benchmark_l |-> water_benchmark])

(***************************************************************************)
(* Impact Calculator                                                       *)
(***************************************************************************)
\* faulty variant: the time of day is ignored
SubstituteItemNone(category, item, time_of_day) == item

\* the item looked up: the time-of-day variant of electricity_kwh
SubstituteItem(category, item, time_of_day) ==
  IF category = "home_energy" /\ item = electricity_kwh /\ time_of_day \notin {None, ""}
    THEN IF time_of_day = "peak" THEN electricity_kwh_peak
         ELSE IF time_of_day = "off_peak" THEN electricity_kwh_offpeak
         ELSE item
    ELSE item

\* faulty variant: an unresolved factor counts as zero impact
calculate_impact_or_zero(category, item, amount, subcategory, time_of_day, up) ==
  LET factor == get_factor(category, SubstituteItem(category, item, time_of_day), subcategory)
  IN  IF factor.exc # "none" THEN Returned(<<D(0, 4), D(0, 2)>>)
      ELSE Returned(<<Round(Mul(factor.value.co2e_per_unit, amount), 4, up[1]),
                      Round(Mul(factor.value.water_per_unit, amount), 2, up[2])>>)

\* up = <<co2e tie, water tie>>: see Round
\* faulty variant: the CO2e value kept to 2 decimal places only
calculate_impact_coarse(category, item, amount, subcategory, time_of_day, up) ==
  LET factor == get_factor(category, SubstituteItem(category, item, time_of_day), subcategory)
  IN  IF factor.exc # "none" THEN factor
      ELSE Returned(<<Round(Round(Mul(factor.value.co2e_per_unit, amount), 2, up[1]), 4, up[1]),
                      Round(Mul(factor.value.water_per_unit, amount), 2, up[2])>>)

calculate_impact(category, item, amount, subcategory, time_of_day, up) ==
  LET factor == get_factor(category, SubstituteItem(category, item, time_of_day), subcategory)
  IN  IF factor.exc # "none" THEN factor
      ELSE Returned(<<Round(Mul(factor.value.co2e_per_unit, amount), 4, up[1]),
                      Round(Mul(factor.value.water_per_unit, amount), 2, up[2])>>)

(***************************************************************************)
(* Recommendation Engine                                                   *)
(***************************************************************************)
RECOMMENDATION_RULES ==
  <<
    [category |-> "mobility", trigger_item |-> taxi_ice,
     action |-> "Switch to EV taxi for your next ride",
     alternative_item |-> taxi_ev,
     rationale |-> "EV taxis produce 76% less CO2 than gasoline taxis",
     difficulty |-> "easy"],
    [category |-> "mobility", trigger_item |-> taxi_ice,
     action |-> "Use public transit for trips under 5km",
     alternative_item |-> subway,
     rationale |-> "Subway produces 83% less CO2 per km than taxi",
     difficulty |-> "medium"],
    [category |-> "mobility", trigger_item |-> personal_car_gasoline,
     action |-> "Consider carpooling or public transit tomorrow",
     alternative_item |-> bus,
     rationale |-> "Bus travel reduces your per-km emissions by 54%",
     difficulty |-> "medium"],
    [category |-> "mobility", trigger_item |-> personal_car_gasoline,
     action |-> "Try walking or cycling for short trips under 3km",
     alternative_item |-> bicycle,
     rationale |-> "Zero emissions and health benefits",
     difficulty |-> "easy"],
    [category |-> "mobility", trigger_item |-> domestic_flight,
     action |-> "Consider KTX for domestic travel when possible",
     alternative_item |-> train_ktx,
     rationale |-> "High-speed rail produces 89% less CO2 than flying",
     difficulty |-> "medium"],
    [category |-> "purchase", trigger_item |-> beef_meal,
     action |-> "Try chicken or fish for one meal tomorrow",
     alternative_item |-> chicken_meal,
     rationale |-> "Chicken produces 83% less CO2 and uses 77% less water than beef",
     difficulty |-> "easy"],
    [category |-> "purchase", trigger_item |-> beef_meal,
     action |-> "Explore a vegetarian meal option",
     alternative_item |-> vegetarian_meal,
     rationale |-> "Vegetarian meals produce 94% less CO2 than beef",
     difficulty |-> "medium"],
    [category |-> "purchase", trigger_item |-> coffee,
     action |-> "Bring a reusable cup for your coffee",
     alternative_item |-> NoItem,
     rationale |-> "Reduces packaging waste and often gets you a discount",
     difficulty |-> "easy"],
    [category |-> "purchase", trigger_item |-> milk_liter,
     action |-> "Try plant-based milk alternatives",
     alternative_item |-> oat_milk_liter,
     rationale |-> "Oat milk produces 53% less CO2 and 92% less water than dairy",
     difficulty |-> "easy"],
    [category |-> "purchase", trigger_item |-> tshirt_fastfashion,
     action |-> "Consider secondhand or sustainable options next time",
     alternative_item |-> tshirt_secondhand,
     rationale |-> "Secondhand clothing reduces impact by 91%",
     difficulty |-> "medium"],
    [category |-> "purchase", trigger_item |-> jeans_fastfashion,
     action |-> "Postpone your next jeans purchase and explore secondhand",
     alternative_item |-> jeans_secondhand,
     rationale |-> "Secondhand jeans save 95% of CO2 and water",
     difficulty |-> "medium"],
    [category |-> "purchase", trigger_item |-> sneakers_new,
     action |-> "Check for refurbished or secondhand options",
     alternative_item |-> sneakers_secondhand,
     rationale |-> "Secondhand shoes reduce impact by 90%",
     difficulty |-> "medium"],
    [category |-> "purchase", trigger_item |-> smartphone_new,
     action |-> "Consider refurbished phones for your next upgrade",
     alternative_item |-> smartphone_refurbished,
     rationale |-> "Refurbished phones use 79% less resources",
     difficulty |-> "easy"],
    [category |-> "purchase", trigger_item |-> laptop_new,
     action |-> "Extend your laptop's life or buy refurbished",
     alternative_item |-> laptop_refurbished,
     rationale |-> "Refurbished laptops reduce impact by 80%",
     difficulty |-> "medium"],
    [category |-> "purchase", trigger_item |-> plastic_bag,
     action |-> "Bring reusable bags for shopping",
     alternative_item |-> reusable_bag,
     rationale |-> "Reusable bags reduce impact by 94% per use",
     difficulty |-> "easy"],
    [category |-> "purchase", trigger_item |-> bottled_water_500ml,
     action |-> "Use a reusable water bottle",
     alternative_item |-> tap_water_500ml,
     rationale |-> "Tap water in reusable bottles reduces impact by 99%",
     difficulty |-> "easy"],
    [category |-> "home_energy", trigger_item |-> electricity_kwh,
     action |-> "Shift high-power activities to off-peak hours",
     alternative_item |-> electricity_kwh_offpeak,
     rationale |-> "Off-peak electricity has 17% lower carbon intensity",
     difficulty |-> "medium"],
    [category |-> "home_energy", trigger_item |-> electricity_kwh_peak,
     action |-> "Reduce peak-hour electricity usage tomorrow",
     alternative_item |-> electricity_kwh_offpeak,
     rationale |-> "Peak hours have 31% higher carbon intensity",
     difficulty |-> "medium"],
    [category |-> "home_energy", trigger_item |-> natural_gas_m3,
     action |-> "Lower heating by 1-2 degrees and wear layers",
     alternative_item |-> NoItem,
     rationale |-> "Each degree reduction saves about 7% of heating energy",
     difficulty |-> "easy"]
  >>

\* faulty variant: the differences are rounded without the floor at 0
calculate_savings_unfloored(trigger_item, alternative_item, category, amount, up) ==
  LET trigger_factor == get_factor(category, trigger_item, None)
      alt_factor == get_factor(category, alternative_item, None)
  IN  IF trigger_factor.exc # "none" \/ alt_factor.exc # "none"
        THEN [co2e_kg |-> Zero, water_l |-> Zero]
        ELSE [co2e_kg |-> Mul(Sub(trigger_factor.value.co2e_per_unit,
                                  alt_factor.value.co2e_per_unit), amount),
              water_l |-> Mul(Sub(trigger_factor.value.water_per_unit,
                                  alt_factor.value.water_per_unit), amount)]

\* try: get_factor twice, the rounded floored differences; except: zeros.
\* up = <<co2e tie, water tie>>: see Round
calculate_savings(trigger_item, alternative_item, category, amount, up) ==
  LET trigger_factor == get_factor(category, trigger_item, None)
      alt_factor == get_factor(category, alternative_item, None)
  IN  IF trigger_factor.exc # "none" \/ alt_factor.exc # "none"
        THEN [co2e_kg |-> Zero, water_l |-> Zero]
        ELSE LET co2e_savings ==
                   Mul(Sub(trigger_factor.value.co2e_per_unit,
                           alt_factor.value.co2e_per_unit), amount)
                 water_savings ==
                   Mul(Sub(trigger_factor.value.water_per_unit,
                           alt_factor.value.water_per_unit), amount)
             IN  [co2e_kg |-> Round(Max0(co2e_savings), 4, up[1]),
                  water_l |-> Round(Max0(water_savings), 2, up[2])]

\* the default list, a fresh literal in every call
Defaults ==
  <<
    [priority |-> 1, category |-> "mobility",
     action |-> "Try walking or cycling for one trip today",
     rationale |-> "Zero-emission transport improves health and reduces carbon footprint",
     estimated_savings_co2e_kg |-> D(5, 1),
     estimated_savings_water_l |-> D(0, 0),
     difficulty |-> "easy"],
    [priority |-> 2, category |-> "purchase",
     action |-> "Choose a plant-based meal option today",
     rationale |-> "Plant-based meals typically have 50-80% lower carbon footprint",
     estimated_savings_co2e_kg |-> D(30, 1),
     estimated_savings_water_l |-> D(1000, 0),
     difficulty |-> "easy"],
    [priority |-> 3, category |-> "home_energy",
     action |-> "Turn off unused lights and appliances",
     rationale |-> "Standby power can account for 5-10% of home energy use",
     estimated_savings_co2e_kg |-> D(2, 1),
     estimated_savings_water_l |-> D(0, 0),
     difficulty |-> "easy"],
    [priority |-> 4, category |-> "purchase",
     action |-> "Bring a reusable bag for your next shopping trip",
     rationale |-> "Single-use plastics contribute to pollution and emissions",
     estimated_savings_co2e_kg |-> D(3, 2),
     estimated_savings_water_l |-> D(5, 1),
     difficulty |-> "easy"],
    [priority |-> 5, category |-> "mobility",
     action |-> "Plan your errands to combine trips",
     rationale |-> "Fewer trips mean less fuel and lower emissions",
     estimated_savings_co2e_kg |-> D(10, 1),
     estimated_savings_water_l |-> D(0, 0),
     difficulty |-> "easy"]
  >>

\* seq[:n] of Python, n of either sign
Slice(seq, n) ==
  IF n >= 0 THEN SubSeq(seq, 1, IF n < Len(seq) THEN n ELSE Len(seq))
  ELSE SubSeq(seq, 1, IF Len(seq) + n > 0 THEN Len(seq) + n ELSE 0)

\* faulty variant: the defaults reordered by savings
get_default_recommendations_sorted(count) ==
  Slice(<<Defaults[2], Defaults[5], Defaults[1], Defaults[3], Defaults[4]>>, count)

\* faulty variant: the first default, as often as asked for
get_default_recommendations_repeated(count) ==
  Slice(<<Defaults[1], Defaults[1], Defaults[1], Defaults[1], Defaults[1]>>, count)

get_default_recommendations(count) == Slice(Defaults, count)

\* faulty variant: every record is a group of its own
RECURSIVE ActionTotalsPerRecord(_, _)
ActionTotalsPerRecord(daily_actions, offs) ==
  IF daily_actions = <<>> THEN <<>>
  ELSE LET action == daily_actions[Len(daily_actions)]
       IN  Append(ActionTotalsPerRecord(SubSeq(daily_actions, 1, Len(daily_actions) - 1),
                                        offs),
                  <<<<action.category, action.item>>,
                    [amount |-> FloatAdd(Zero, Get(action, "amount", D(1, 0)), 0),
                     co2e_kg |-> FloatAdd(Zero, Get(action, "co2e_kg", Zero), 0)]>>)

\* action_totals: <<key, totals>> in order of first occurrence of the key;
\* offs[k] = <<off of the amount sum, off of the co2e_kg sum>> at the k-th
\* record's two additions
RECURSIVE ActionTotals(_, _)
ActionTotals(daily_actions, offs) ==
  IF daily_actions = <<>> THEN <<>>
  ELSE LET k == Len(daily_actions)
           before == ActionTotals(SubSeq(daily_actions, 1, k - 1), offs)
           action == daily_actions[k]
           key == <<action.category, action.item>>
           amount == Get(action, "amount", D(1, 0))
           co2e_kg == Get(action, "co2e_kg", Zero)
       IN  IF HasKey(before, key)
             THEN [i \in 1..Len(before) |->
                     IF before[i][1] = key
                       THEN <<key,
                              [amount |-> FloatAdd(before[i][2].amount, amount, offs[k][1]),
                               co2e_kg |-> FloatAdd(before[i][2].co2e_kg, co2e_kg,
                                                    offs[k][2])]>>
                       ELSE before[i]]
             ELSE Append(before, <<key, [amount |-> FloatAdd(Zero, amount, 0),
                                         co2e_kg |-> FloatAdd(Zero, co2e_kg, 0)]>>)

\* faulty variant: a 10% estimate
Tenth == D(1, 1)

\* the float literal 0.2
Fifth == D(2, 1)

\* the savings of rule r on a group; up as in calculate_savings
RuleSavings(r, category, totals, up) ==
  LET rule == RECOMMENDATION_RULES[r] IN
  IF rule.alternative_item # NoItem
    THEN calculate_savings(rule.trigger_item, rule.alternative_item, category,
                           totals.amount, up)
    ELSE [co2e_kg |-> Round(Mul(totals.co2e_kg, Fifth), 4, up[1]), water_l |-> Zero]

\* the loop over the rules for one group, from rule r on; state is
\* <<seen_actions, matched_recommendations>>; ups = <<U, W, offs>>: the
\* rules whose co2e resp. water rounding goes up at a tie, and offs as in
\* ActionTotals
RECURSIVE MatchRules(_, _, _, _)
MatchRules(group, r, state, ups) ==
  IF r > Len(RECOMMENDATION_RULES) THEN state
  ELSE LET rule == RECOMMENDATION_RULES[r]
           category == group[1][1]
           item == group[1][2]
           totals == group[2]
           action_key == <<rule.category, rule.action>>
       IN  IF rule.category = category /\ rule.trigger_item = item
                /\ action_key \notin state[1]
             THEN LET savings == RuleSavings(r, category, totals,
                                             <<r \in ups[1], r \in ups[2]>>)
                  IN  MatchRules(group, r + 1,
                        <<state[1] \cup {action_key},
                          Append(state[2],
                            [priority |-> 0,
                             category |-> category,
                             action |-> rule.action,
                             rationale |-> rule.rationale,
                             estimated_savings_co2e_kg |-> savings.co2e_kg,
                             estimated_savings_water_l |-> savings.water_l,
                             difficulty |-> rule.difficulty,
                             trigger_item |-> item,
                             trigger_amount |-> totals.amount])>>,
                        ups)
             ELSE MatchRules(group, r + 1, state, ups)

\* the loop over the groups
RECURSIVE MatchGroups(_, _, _, _)
MatchGroups(action_totals, g, state, ups) ==
  IF g > Len(action_totals) THEN state
  ELSE MatchGroups(action_totals, g + 1, MatchRules(action_totals[g], 1, state, ups), ups)

\* matched_recommendations before the sort
MatchedRecommendations(action_totals, ups) ==
  MatchGroups(action_totals, 1, <<{}, <<>>>>, ups)[2]

\* rec put into a list sorted by savings, behind its equals
RECURSIVE InsertBySavings(_, _)
InsertBySavings(sorted, rec) ==
  IF sorted = <<>> THEN <<rec>>
  ELSE IF NumLt(Head(sorted).estimated_savings_co2e_kg, rec.estimated_savings_co2e_kg)
    THEN <<rec>> \o sorted
    ELSE <<Head(sorted)>> \o InsertBySavings(Tail(sorted), rec)

\* faulty variant: the matches left in the order they were found
SortedBySavingsUnsorted(recs) == recs

\* list.sort(key = co2e savings, reverse = True): stable
RECURSIVE SortedBySavings(_)
SortedBySavings(recs) ==
  IF recs = <<>> THEN <<>>
  ELSE InsertBySavings(SortedBySavings(SubSeq(recs, 1, Len(recs) - 1)), recs[Len(recs)])

\* recs with priorities first + 1, first + 2, ...
Renumbered(recs, first) ==
  [i \in 1..Len(recs) |-> [recs[i] EXCEPT !.priority = first + i]]

\* the padding loop: rec["priority"] = len(result) + i + 1 for i = 0, 1, ...
\* with result, of length len_result before the loop, growing by every
\* append
PaddedWith(defaults, len_result) ==
  [i \in 1..Len(defaults) |->
     [defaults[i] EXCEPT !.priority = (len_result + (i - 1)) + (i - 1) + 1]]

\* the locals of get_recommendations after the sort: the groups and the
\* sorted matches
MatchedAndSorted(daily_actions, ups) ==
  LET action_totals == ActionTotals(daily_actions, ups[3])
  IN  [action_totals |-> action_totals,
       matched |-> SortedBySavings(MatchedRecommendations(action_totals, ups))]

\* get_recommendations from the sort on: the defaults for no records, else
\* priorities, truncation and padding
Assembled(daily_actions, locals, max_recommendations) ==
  IF daily_actions = <<>>
    THEN [exc |-> "none",
          value |-> get_default_recommendations(max_recommendations),
          action_totals |-> <<>>, matched |-> <<>>]
    ELSE LET result == Renumbered(Slice(locals.matched, max_recommendations), 0)
             padded ==
               IF Len(result) < max_recommendations
                 THEN result \o PaddedWith(
                        get_default_recommendations(max_recommendations - Len(result)),
                        Len(result))
                 ELSE result
         IN  [exc |-> "none", value |-> padded,
              action_totals |-> locals.action_totals, matched |-> locals.matched]

\* get_recommendations with its locals: [value, action_totals, matched]
get_recommendations(daily_actions, max_recommendations, ups) ==
  Assembled(daily_actions, MatchedAndSorted(daily_actions, ups), max_recommendations)

(***************************************************************************)
(* Inputs of the factor operations                                         *)
(***************************************************************************)
MaxPad == 1
MaxAmountDigit == 6
MaxAmountPlaces == 2

Categories == {"mobility", "home_energy", "purchase", "invalid_category"}

Subcategories == {None, "fashion", "household", "no_such_subcategory"}

TimesOfDay == {None, "peak", "off_peak", "standard"}

\* exact keys: present in a table, and absent from all
BaseItems ==
  { taxi_ice, bicycle, electricity_kwh, natural_gas_m3,
    beef_meal, tshirt_secondhand, reusable_bag, nonexistent_item, car_gasoline }

\* s with the positions of mask in upper case
Cased(s, mask) == [i \in 1..Len(s) |-> IF i \in mask THEN UpperChar(s[i]) ELSE s[i]]

\* lower, Title, ..., UPPER, and alternating
CaseMasks(s) ==
  {1..p : p \in 0..Len(s)} \cup {{i \in 1..Len(s) : i % 2 = 0}}

\* the spellings of s that str.lower() folds to s: the case masks, and
\* U+212A, the Kelvin sign, for every k
Spellings(s) ==
  {Cased(s, mask) : mask \in CaseMasks(s)}
    \cup {[i \in 1..Len(s) |-> IF s[i] = 107 THEN 8490 ELSE s[i]]}

PadChars == {32, 9}

RECURSIVE SeqsUpTo(_, _)
SeqsUpTo(chars, n) ==
  IF n = 0 THEN {<<>>}
  ELSE LET shorter == SeqsUpTo(chars, n - 1)
       IN  shorter \cup {<<c>> \o s : c \in chars, s \in {t \in shorter : Len(t) = n - 1}}

Pads == SeqsUpTo(PadChars, MaxPad)

ImpactItems ==
  { taxi_ice, bicycle, electricity_kwh, beef_meal, tshirt_secondhand,
    nonexistent_item }

Amounts == {D(m, e) : m \in 0..MaxAmountDigit, e \in 0..MaxAmountPlaces}

(***************************************************************************)
(* Operations                                                              *)
(***************************************************************************)
\* what compare_to_benchmark is given: nothing, below, at and above the
\* averages, and 8.004 l, which stands 0.05 % above the mobility average
BenchmarkAmounts == {Zero, D(10, 1), D(28, 1), D(35, 1), D(50, 1), D(8004, 3)}

\* the two lru_cache-wrapped loaders
Loaders == {"emission", "product"}

\* the threads that call into the Factor Repository
NThreads == 2
Threads == 1..NThreads

\* a table a thread or a cache may hold: the top-level keys populated in it
NoTable == [present |-> FALSE, keys |-> <<>>]
Held(keys) == [present |-> TRUE, keys |-> keys]

\* a thread between two calls, and a thread that makes none
IdleThread ==
  [pc |-> "idle", call |-> "none", args |-> <<>>, todo |-> <<>>, built |-> <<>>,
   factors |-> [f \in Loaders |-> NoTable]]
ParkedThread == [IdleThread EXCEPT !.pc = "parked"]

\* no thread calls, nothing is logged
ThreadsAtRest ==
  /\ cache = [f \in Loaders |-> NoTable]
  /\ thread = [t \in Threads |-> ParkedThread]
  /\ loader_runs = [f \in Loaders |-> 0]
  /\ calls = [on |-> FALSE, done |-> <<>>]

\* init_db() on a fresh file: the table exists and is empty
StoreEmpty ==
  /\ action_logs = <<>>
  /\ next_id = 1

\* the module as imported and no call made: RECOMMENDATION_RULES, the list
\* get_default_recommendations builds, and no records of a caller
ModuleFresh ==
  /\ held = [RECOMMENDATION_RULES |-> RECOMMENDATION_RULES, defaults |-> Defaults,
             daily_actions |-> <<>>]
  /\ earlier = 0
  /\ ties_up = {}

\* ChatSession()
SessionNew ==
  /\ session = [history |-> <<>>, daily_actions |-> <<>>, daily_impacts |-> <<>>]
  /\ added = <<>>

\* no call of the single caller is under way
CallerIdle ==
  /\ emission_loaded = FALSE
  /\ product_loaded = FALSE
  /\ op = "idle"
  /\ args = <<>>
  /\ ret = <<>>

Init ==
  /\ CallerIdle
  /\ ThreadsAtRest
  /\ StoreEmpty
  /\ ModuleFresh
  /\ SessionNew

\* get_factor(category, item, subcategory), item a spelling of key
GetFactor ==
  /\ op = "idle"
  /\ \E category \in Categories, key \in BaseItems, subcategory \in Subcategories,
        left \in Pads, right \in Pads :
       \E spelling \in Spellings(key) :
         LET item == left \o spelling \o right IN
         /\ op' = "get_factor"
         /\ args' = [category |-> category, item |-> item, key |-> key,
                     subcategory |-> subcategory]
         /\ ret' = get_factor(category, item, subcategory)
         /\ emission_loaded' = (emission_loaded \/ LoadsEmission(category))
         /\ product_loaded' = (product_loaded \/ LoadsProduct(category))
  /\ UNCHANGED <<threadvars, storevars, modulevars, sessionvars>>

\* whether round(x, k) stands on an exact decimal tie
IsTie(x, k) == x.e > k /\ 2 * (x.m % Pow10(x.e - k)) = Pow10(x.e - k)

\* the ways round() can go on the two products of calculate_impact
TieChoices(factor, amount) ==
  IF factor.exc # "none" THEN {<<FALSE, FALSE>>}
  ELSE (IF IsTie(Mul(factor.value.co2e_per_unit, amount), 4) THEN BOOLEAN ELSE {FALSE})
         \X (IF IsTie(Mul(factor.value.water_per_unit, amount), 2) THEN BOOLEAN ELSE {FALSE})

\* calculate_impact(category, item, amount, subcategory, time_of_day)
CalculateImpact ==
  /\ op = "idle"
  /\ \E category \in Categories, key \in ImpactItems, subcategory \in {None, "fashion"},
        time_of_day \in TimesOfDay, amount \in Amounts :
       \E item \in {key, Cased(key, 1..Len(key)), <<32>> \o key \o <<9>>} :
         \E up \in TieChoices(get_factor(category,
                       SubstituteItem(category, item, time_of_day), subcategory), amount) :
           /\ op' = "calculate_impact"
           /\ args' = [category |-> category, item |-> item, key |-> key,
                       amount |-> amount, subcategory |-> subcategory,
                       time_of_day |-> time_of_day]
           /\ ret' = calculate_impact(category, item, amount, subcategory, time_of_day, up)
           /\ emission_loaded' = (emission_loaded \/ LoadsEmission(category))
           /\ product_loaded' = (product_loaded \/ LoadsProduct(category))
  /\ UNCHANGED <<threadvars, storevars, modulevars, sessionvars>>

\* clear_factor_cache()
ClearFactorCache ==
  /\ op = "idle"
  /\ op' = "clear_factor_cache"
  /\ args' = <<>>
  /\ ret' = Returned(None)
  /\ emission_loaded' = FALSE
  /\ product_loaded' = FALSE
  /\ UNCHANGED <<threadvars, storevars, modulevars, sessionvars>>

\* get_all_factors()
GetAllFactors ==
  /\ op = "idle"
  /\ op' = "get_all_factors"
  /\ args' = <<>>
  /\ ret' = Returned(get_all_factors)
  /\ emission_loaded' = TRUE
  /\ product_loaded' = TRUE
  /\ UNCHANGED <<threadvars, storevars, modulevars, sessionvars>>

\* the ways round() can go on one deviation of compare_to_benchmark
RatioTieChoices(actual, benchmark) ==
  IF /\ NumLt(Zero, benchmark)
     /\ IsRatioTie(Sub(actual, benchmark), [benchmark EXCEPT !.e = @ + 2], 1)
    THEN BOOLEAN ELSE {FALSE}

\* compare_to_benchmark(category, co2e_kg, water_l)
CompareToBenchmark ==
  /\ op = "idle"
  /\ \E category \in Categories, co2e_kg \in BenchmarkAmounts, water_l \in BenchmarkAmounts :
       LET benchmark == get_category_benchmark(category) IN
       \E up \in RatioTieChoices(co2e_kg, benchmark.avg_daily_co2e_kg)
                   \X RatioTieChoices(water_l, benchmark.avg_daily_water_l) :
         /\ op' = "compare_to_benchmark"
         /\ args' = [category |-> category, co2e_kg |-> co2e_kg, water_l |-> water_l]
         /\ ret' = compare_to_benchmark(category, co2e_kg, water_l, up)
  /\ UNCHANGED <<emission_loaded, product_loaded, threadvars, storevars, modulevars, sessionvars>>

\* the caller takes the result and goes on to its next call
Return ==
  /\ op # "idle"
  /\ op' = "idle"
  /\ args' = <<>>
  /\ ret' = <<>>
  /\ UNCHANGED <<emission_loaded, product_loaded>>
  /\ UNCHANGED <<threadvars, storevars, modulevars, sessionvars>>

NextFactor ==
  \/ GetFactor
  \/ CalculateImpact
  \/ GetAllFactors
  \/ CompareToBenchmark
  \/ ClearFactorCache
  \/ Return

SpecFactor == Init /\ [][NextFactor]_vars

(***************************************************************************)
(* Claims on the Factor Repository and the Impact Calculator               *)
(***************************************************************************)
\* the item keys of a category's tables
KeysOf(category) ==
  IF category = "mobility"
    THEN {emission_factors.mobility[i][1] : i \in 1..Len(emission_factors.mobility)}
  ELSE IF category = "home_energy"
    THEN {emission_factors.home_energy[i][1] : i \in 1..Len(emission_factors.home_energy)}
  ELSE IF category = "purchase"
    THEN UNION {{product_factors.purchase[j][2][i][1] :
                   i \in 1..Len(product_factors.purchase[j][2])} :
                j \in 1..Len(product_factors.purchase)}
  ELSE {}

\* C1: for an item key present in the category's tables, get_factor gives
\* for any spelling of it (letter case, surrounding whitespace) the factor
\* it gives for the exact key.
C1_CaseAndWhitespaceInsensitive ==
  (op = "get_factor" /\ args.key \in KeysOf(args.category))
    => /\ ret.exc = "none"
       /\ ret = get_factor(args.category, args.key, args.subcategory)

\* a padded, upper-cased spelling of a table key was looked up and resolved
C1_Witness ==
  /\ op = "get_factor"
  /\ args.key \in KeysOf(args.category)
  /\ Len(args.item) > Len(args.key)
  /\ args.item[1] \in Whitespace
  /\ \E i \in 1..Len(args.item) : args.item[i] \in 65..90
  /\ ret.exc = "none"

\* C2: get_factor raises FactorNotFoundError, returning nothing, when the
\* key is in no table of the category or the category is not one of the three.
C2_RaisesWhenAbsent ==
  (op = "get_factor" /\ args.key \notin KeysOf(args.category))
    => ret = FactorNotFoundError

\* both cases happened: a known category without the item, an unknown category
C2_Witness ==
  /\ op = "get_factor"
  /\ args.category = "invalid_category"
  /\ args.key = taxi_ice
  /\ args.item # args.key
  /\ ret = FactorNotFoundError

\* r is x rounded to k places: a decimal of k places nearest to x
IsRounded(r, x, k) ==
  /\ r.e = k
  /\ IF x.e <= k THEN r.m = x.m * Pow10(k - x.e)
     ELSE LET p == Pow10(x.e - k)
              d == r.m * p - x.m
          IN  2 * d <= p /\ 2 * d >= -p

\* the factor calculate_impact resolves for the call held in args
ResolvedFactor ==
  get_factor(args.category,
             SubstituteItem(args.category, args.item, args.time_of_day),
             args.subcategory)

\* C3: when the factor resolves, calculate_impact returns the pair
\* (co2e_per_unit * amount rounded to 4 places, water_per_unit * amount
\* rounded to 2 places).
C3_ImpactIsRoundedProduct ==
  (op = "calculate_impact" /\ ResolvedFactor.exc = "none")
    => /\ ret.exc = "none"
       /\ IsRounded(ret.value[1], Mul(ResolvedFactor.value.co2e_per_unit, args.amount), 4)
       /\ IsRounded(ret.value[2], Mul(ResolvedFactor.value.water_per_unit, args.amount), 2)

\* a product with more than 4 places was rounded, away from truncation
C3_Witness ==
  /\ op = "calculate_impact"
  /\ ResolvedFactor.exc = "none"
  /\ ret.exc = "none"
  /\ LET x == Mul(ResolvedFactor.value.co2e_per_unit, args.amount)
     IN  x.e > 4 /\ ret.value[1].m = (x.m \div Pow10(x.e - 4)) + 1

\* C4: when the factor does not resolve, calculate_impact ends with
\* FactorNotFoundError and returns no numbers.
C4_ImpactPropagatesNotFound ==
  (op = "calculate_impact" /\ ResolvedFactor.exc # "none")
    => ret = FactorNotFoundError

\* an impact was asked for an item of no table
C4_Witness ==
  /\ op = "calculate_impact"
  /\ args.key = nonexistent_item
  /\ args.category = "mobility"
  /\ args.amount.m > 0
  /\ ret = FactorNotFoundError

\* the benchmark of the call held in args, per metric
BenchmarkOf(metric) ==
  LET benchmark == get_category_benchmark(args.category)
  IN  IF metric = "co2e" THEN benchmark.avg_daily_co2e_kg ELSE benchmark.avg_daily_water_l

\* C11: compare_to_benchmark reports a deviation of 0 for a metric whose
\* benchmark value is 0, whatever the actual value.
C11_ZeroBenchmarkGivesZero ==
  op = "compare_to_benchmark"
    => /\ NumEq(BenchmarkOf("co2e"), Zero) => NumEq(ret.value.co2e_vs_avg_percent, Zero)
       /\ NumEq(BenchmarkOf("water"), Zero) => NumEq(ret.value.water_vs_avg_percent, Zero)

\* the <<subcategory, item>> pairs of a category's table entries
TableEntries(category) ==
  IF category = "mobility"
    THEN {<<None, emission_factors.mobility[i][1]>> :
            i \in 1..Len(emission_factors.mobility)}
  ELSE IF category = "home_energy"
    THEN {<<None, emission_factors.home_energy[i][1]>> :
            i \in 1..Len(emission_factors.home_energy)}
  ELSE UNION {{<<product_factors.purchase[j][1], product_factors.purchase[j][2][i][1]>> :
                 i \in 1..Len(product_factors.purchase[j][2])} :
              j \in 1..Len(product_factors.purchase)}

\* C14: get_all_factors lists every entry of the tables exactly once: in the
\* list of each category no <<subcategory, item>> occurs twice, every listed
\* pair is an entry of the tables and every entry of the tables is listed.
C14_EveryFactorListedOnce ==
  op = "get_all_factors"
    => /\ ret.exc = "none"
       /\ \A category \in {"mobility", "home_energy", "purchase"} :
            LET listed == ret.value[category] IN
            /\ \A i \in 1..Len(listed) : \A j \in 1..Len(listed) :
                 (listed[i].subcategory = listed[j].subcategory
                    /\ listed[i].item = listed[j].item) => i = j
            /\ \A i \in 1..Len(listed) : listed[i].category = category
            /\ {<<listed[i].subcategory, listed[i].item>> : i \in 1..Len(listed)}
                 = TableEntries(category)

\* the list was returned, and holds an item under each of its two
\* subcategories
C14_Witness ==
  /\ op = "get_all_factors"
  /\ ret.exc = "none"
  /\ Len(ret.value.mobility) > 1
  /\ \E i \in 1..Len(ret.value.purchase), j \in 1..Len(ret.value.purchase) :
       /\ ret.value.purchase[i].item = reusable_bag
       /\ ret.value.purchase[j].item = reusable_bag
       /\ ret.value.purchase[i].subcategory = "fashion"
       /\ ret.value.purchase[j].subcategory = "household"

\* the factor get_factor builds from an entry of a purchase subcategory
PurchaseFactor(factor_data) ==
  Returned([co2e_per_unit |-> Get(factor_data, "co2e_kg_per_unit", Zero),
            water_per_unit |-> Get(factor_data, "water_l_per_unit", Zero),
            unit |-> Get(factor_data, "unit", "unit"),
            description |-> Get(factor_data, "description", "")])

\* the positions of the purchase subcategories that hold item
Holding(item) ==
  {j \in 1..Len(product_factors.purchase) :
     HasKey(product_factors.purchase[j][2], item)}

\* C16: for purchase, get_factor returns the entry of the given subcategory
\* when that subcategory holds the item; otherwise the entry of the first
\* subcategory, in declaration order, that holds it; and raises
\* FactorNotFoundError only when none holds it.
C16_SubcategoryThenDeclarationOrder ==
  (op = "get_factor" /\ args.category = "purchase")
    => LET item == args.key
           purchase == product_factors.purchase
           given == {j \in Holding(item) : purchase[j][1] = args.subcategory}
       IN  IF given # {}
             THEN \A j \in given : ret = PurchaseFactor(Lookup(purchase[j][2], item))
           ELSE IF Holding(item) # {}
             THEN \E j \in Holding(item) :
                    /\ \A k \in Holding(item) : j <= k
                    /\ ret = PurchaseFactor(Lookup(purchase[j][2], item))
           ELSE ret = FactorNotFoundError

\* an item of two subcategories was asked for under the later one, and the
\* entry returned is not the one the scan comes to first
C16_Witness ==
  /\ op = "get_factor"
  /\ args.category = "purchase"
  /\ args.subcategory = "household"
  /\ Cardinality(Holding(args.key)) > 1
  /\ ret.exc = "none"
  /\ \E j \in Holding(args.key) :
       /\ \A k \in Holding(args.key) : j <= k
       /\ ret # PurchaseFactor(Lookup(product_factors.purchase[j][2], args.key))

\* the key the claim names for the call held in args
VariantKey ==
  IF args.category = "home_energy" /\ args.item = electricity_kwh
    THEN IF args.time_of_day = "peak" THEN electricity_kwh_peak
         ELSE IF args.time_of_day = "off_peak" THEN electricity_kwh_offpeak
         ELSE args.item
    ELSE args.item

\* C18: calculate_impact on home_energy electricity_kwh with time_of_day peak
\* (off_peak) gives what it gives on electricity_kwh_peak
\* (electricity_kwh_offpeak) with no time of day; for any other time of day,
\* category or item it gives what it gives with no time of day.
C18_TimeOfDaySelectsVariantEntry ==
  op = "calculate_impact"
    => \E up \in BOOLEAN \X BOOLEAN :
         /\ up \in TieChoices(get_factor(args.category, VariantKey, args.subcategory),
                              args.amount)
         /\ ret = calculate_impact(args.category, VariantKey, args.amount,
                                   args.subcategory, None, up)

\* peak electricity was asked for and costs more than the standard entry
C18_Witness ==
  /\ op = "calculate_impact"
  /\ args.category = "home_energy"
  /\ args.item = electricity_kwh
  /\ args.time_of_day = "peak"
  /\ ret.exc = "none"
  /\ ret = calculate_impact("home_energy", electricity_kwh_peak, args.amount,
                            None, None, <<FALSE, FALSE>>)
  /\ NumLt(calculate_impact("home_energy", electricity_kwh, args.amount,
                            None, None, <<FALSE, FALSE>>).value[1],
           ret.value[1])

\* C25: calculate_impact gives for an item written in any letter case or
\* with surrounding whitespace what it gives for the normalised key, also
\* when time_of_day is peak or off_peak.
C25_ImpactSpellingInsensitive ==
  op = "calculate_impact"
    => \E up \in BOOLEAN \X BOOLEAN :
         /\ up \in TieChoices(get_factor(args.category,
                                SubstituteItem(args.category, args.key, args.time_of_day),
                                args.subcategory),
                              args.amount)
         /\ ret = calculate_impact(args.category, args.key, args.amount,
                                   args.subcategory, args.time_of_day, up)

\* a and b differ by at most one unit of the k-th decimal place
WithinOneUnit(a, b, k) ==
  /\ ~NumLt(D(1, k), Sub(a, b))
  /\ ~NumLt(Sub(a, b), D(-1, k))

\* the results calculate_impact can give for twice the amount of the call
Doubled ==
  LET twice == Mul(args.amount, D(2, 0))
  IN  {calculate_impact(args.category, args.item, twice, args.subcategory,
                        args.time_of_day, up) :
         up \in TieChoices(get_factor(args.category,
                             SubstituteItem(args.category, args.item, args.time_of_day),
                             args.subcategory), twice)}

\* C30: when calculate_impact resolves an item for amount a, it resolves it
\* for 2a, and the result for 2a is twice the result for a in both
\* components up to the rounding: one unit of the 4th decimal for CO2e and
\* of the 2nd decimal for water.
C30_LinearInAmount ==
  (op = "calculate_impact" /\ ret.exc = "none")
    => \A r \in Doubled :
         /\ r.exc = "none"
         /\ WithinOneUnit(r.value[1], Mul(ret.value[1], D(2, 0)), 4)
         /\ WithinOneUnit(r.value[2], Mul(ret.value[2], D(2, 0)), 2)

\* the result for 2a is not twice the nonzero result for a: the roundings
\* of 0.459 * a and of 0.459 * 2a fall on different sides
C30_Witness ==
  /\ op = "calculate_impact"
  /\ ret.exc = "none"
  /\ args.category = "home_energy"
  /\ NumLt(Zero, ret.value[1])
  /\ \E r \in Doubled : ~NumEq(r.value[1], Mul(ret.value[1], D(2, 0)))

(***************************************************************************)
(* Inputs of the Recommendation Engine                                     *)
(***************************************************************************)
MaxRecords == 3
MaxCount == 6

\* an action record as the store keeps it: the impact is the calculator's
ActionRecord(category, item, amount) ==
  LET impact == calculate_impact(category, item, amount, None, None, <<FALSE, FALSE>>).value
  IN  [category |-> category, item |-> item, amount |-> amount,
       co2e_kg |-> impact[1], water_l |-> impact[2]]

\* <<category, item, amount>> of the records drawn
PoolActions ==
  { <<"mobility", taxi_ice, D(5, 0)>>,
    <<"mobility", taxi_ice, D(25, 1)>>,
    <<"purchase", plastic_bag, D(2, 0)>>,
    <<"mobility", bicycle, D(3, 0)>>,
    <<"purchase", coffee, D(3, 2)>>,
    <<"purchase", beef_meal, D(1, 0)>>,
    <<"purchase", milk_liter, D(1, 0)>> }

RecordPool == {ActionRecord(a[1], a[2], a[3]) : a \in PoolActions}

RecordLists == UNION {[1..n -> RecordPool] : n \in 0..MaxRecords}

Counts == -1..MaxCount

\* the rules whose co2e (which = 1) or water (which = 2) rounding stands on
\* a tie for these groups
TieRules(action_totals, which) ==
  {r \in 1..Len(RECOMMENDATION_RULES) :
     \E g \in 1..Len(action_totals) :
       /\ RECOMMENDATION_RULES[r].category = action_totals[g][1][1]
       /\ RECOMMENDATION_RULES[r].trigger_item = action_totals[g][1][2]
       /\ RuleSavings(r, action_totals[g][1][1], action_totals[g][2], <<FALSE, FALSE>>)
            # RuleSavings(r, action_totals[g][1][1], action_totals[g][2],
                          <<which = 1, which = 2>>)}

\* the rules that look factors up for these groups: those with an
\* alternative item
LookupRules(action_totals) ==
  {r \in 1..Len(RECOMMENDATION_RULES) :
     /\ RECOMMENDATION_RULES[r].alternative_item # NoItem
     /\ \E g \in 1..Len(action_totals) :
          /\ RECOMMENDATION_RULES[r].category = action_totals[g][1][1]
          /\ RECOMMENDATION_RULES[r].trigger_item = action_totals[g][1][2]}

\* the offs of the additions of ActionTotals: the first record of a key is
\* added to 0, which is exact, and every later one may fall either way
RECURSIVE SumOffsets(_)
SumOffsets(daily_actions) ==
  IF daily_actions = <<>> THEN {<<>>}
  ELSE LET k == Len(daily_actions)
           first == \A j \in 1..(k - 1) :
                      <<daily_actions[j].category, daily_actions[j].item>>
                        # <<daily_actions[k].category, daily_actions[k].item>>
       IN  {Append(offs, off) :
              offs \in SumOffsets(SubSeq(daily_actions, 1, k - 1)),
              off \in IF first THEN {<<0, 0>>} ELSE Offs \X Offs}

\* offs that give these action_totals
OffsetsOf(daily_actions, action_totals) ==
  CHOOSE offs \in SumOffsets(daily_actions) :
    ActionTotals(daily_actions, offs) = action_totals

\* get_recommendations(daily_actions, max_recommendations); the part up to the
\* sort is evaluated once for all max_recommendations
GetRecommendations ==
  /\ op = "idle"
  /\ \E daily_actions \in RecordLists :
       \E action_totals \in {ActionTotals(daily_actions, offs) :
                               offs \in SumOffsets(daily_actions)} :
         \E U \in SUBSET TieRules(action_totals, 1),
            W \in SUBSET TieRules(action_totals, 2) :
           \E locals \in {MatchedAndSorted(
                            daily_actions,
                            <<U, W, OffsetsOf(daily_actions, action_totals)>>)} :
             \E max_recommendations \in Counts :
               /\ op' = "get_recommendations"
               /\ args' = [daily_actions |-> daily_actions,
                           max_recommendations |-> max_recommendations]
               /\ ret' = Assembled(daily_actions, locals, max_recommendations)
               /\ emission_loaded' =
                    (emission_loaded \/ \E r \in LookupRules(action_totals) :
                                           LoadsEmission(RECOMMENDATION_RULES[r].category))
               /\ product_loaded' =
                    (product_loaded \/ \E r \in LookupRules(action_totals) :
                                          LoadsProduct(RECOMMENDATION_RULES[r].category))
  /\ UNCHANGED <<threadvars, storevars, modulevars, sessionvars>>

NextRecommend == GetRecommendations \/ ClearFactorCache \/ Return

SpecRecommend == Init /\ [][NextRecommend]_vars

(***************************************************************************)
(* Claims about the Recommendation Engine                                  *)
(***************************************************************************)

\* a recommendation that came from a rule carries its trigger
IsMatched(rec) == "trigger_item" \in DOMAIN rec

\* the entries of the returned list that came from rules
MatchedCount == Cardinality({i \in 1..Len(ret.value) : IsMatched(ret.value[i])})

\* C5 as stated: the whole returned list is in non-increasing order of
\* estimated CO2e savings, for every record list and every count.
C5_ListSortedBySavings ==
  op = "get_recommendations"
    => \A i, j \in 1..Len(ret.value) :
         i < j => ~NumLt(ret.value[i].estimated_savings_co2e_kg,
                         ret.value[j].estimated_savings_co2e_kg)

\* C5, amended: the recommendations that come from matched rules stand first
\* and are in non-increasing order of estimated CO2e savings; the default
\* recommendations behind them (or alone, for no records) are the head of the
\* default list in its own fixed order.
C5_MatchedSortedBySavings ==
  op = "get_recommendations"
    => /\ \A i \in 1..Len(ret.value) : IsMatched(ret.value[i]) <=> i <= MatchedCount
       /\ \A i, j \in 1..MatchedCount :
            i < j => ~NumLt(ret.value[i].estimated_savings_co2e_kg,
                            ret.value[j].estimated_savings_co2e_kg)
       /\ \A i \in 1..Len(ret.value) :
            i > MatchedCount
              => /\ i - MatchedCount <= Len(Defaults)
                 /\ [ret.value[i] EXCEPT !.priority = 0]
                      = [Defaults[i - MatchedCount] EXCEPT !.priority = 0]

\* the sort moved a later group's recommendation to the front, and a default
\* with larger savings than the last match was padded behind the matches
C5_Witness ==
  /\ op = "get_recommendations"
  /\ MatchedCount >= 2
  /\ Len(ret.value) > MatchedCount
  /\ ret.value[1].trigger_item # args.daily_actions[1].item
  /\ NumLt(ret.value[2].estimated_savings_co2e_kg,
           ret.value[1].estimated_savings_co2e_kg)
  /\ NumLt(ret.value[MatchedCount].estimated_savings_co2e_kg,
           ret.value[MatchedCount + 1].estimated_savings_co2e_kg)

\* C6: for no records and a count n >= 0 no rule is matched and the result is
\* the first n entries of the default list (all of them when n exceeds its
\* length), in the list's order, with priorities 1, 2, ...
C6_EmptyGivesDefaults ==
  (op = "get_recommendations" /\ args.daily_actions = <<>>
     /\ args.max_recommendations >= 0)
    => /\ ret.matched = <<>>
       /\ Len(ret.value) = IF args.max_recommendations < Len(Defaults)
                             THEN args.max_recommendations ELSE Len(Defaults)
       /\ \A i \in 1..Len(ret.value) :
            /\ ret.value[i] = Defaults[i]
            /\ ret.value[i].priority = i

\* get_recommendations([], 3)
C6_Witness ==
  /\ op = "get_recommendations"
  /\ args.daily_actions = <<>>
  /\ args.max_recommendations = 3
  /\ Len(ret.value) = 3
  /\ ret.value[3].category = "home_energy"

\* the sum of a field over the records with this key
RECURSIVE SumField(_, _, _)
SumField(records, key, field) ==
  IF records = <<>> THEN Zero
  ELSE LET r == records[Len(records)]
       IN  Add(SumField(SubSeq(records, 1, Len(records) - 1), key, field),
               IF <<r.category, r.item>> = key THEN r[field] ELSE Zero)

\* the rules a key triggers
MatchingRules(key) ==
  {r \in 1..Len(RECOMMENDATION_RULES) :
     /\ RECOMMENDATION_RULES[r].category = key[1]
     /\ RECOMMENDATION_RULES[r].trigger_item = key[2]}

\* the matches that rule r produced for a key
MatchesOf(key, r) ==
  {i \in 1..Len(ret.matched) :
     /\ ret.matched[i].category = key[1]
     /\ ret.matched[i].trigger_item = key[2]
     /\ ret.matched[i].action = RECOMMENDATION_RULES[r].action}

\* C7: the rules are matched against one aggregate per distinct
\* (category, item), its amount and co2e_kg the sums over the records with
\* that key; every rule the key triggers yields exactly one match, whose
\* trigger_amount is the summed amount and whose savings are those of the
\* sums; the returned list is cut from these matches.  The sums are float
\* sums and are compared with the sums of the records as decimals.
C7_OneAggregatePerKey ==
  (op = "get_recommendations" /\ args.daily_actions # <<>>)
    => LET records == args.daily_actions
           keys == {<<records[i].category, records[i].item>> : i \in 1..Len(records)}
           aggregate(key) == [amount |-> SumField(records, key, "amount"),
                              co2e_kg |-> SumField(records, key, "co2e_kg")]
       IN  /\ Len(ret.action_totals) = Cardinality(keys)
           /\ \A g \in 1..Len(ret.action_totals) :
                /\ ret.action_totals[g][1] \in keys
                /\ NumEq(ret.action_totals[g][2].amount,
                         aggregate(ret.action_totals[g][1]).amount)
                /\ NumEq(ret.action_totals[g][2].co2e_kg,
                         aggregate(ret.action_totals[g][1]).co2e_kg)
           /\ \A key \in keys : \A r \in MatchingRules(key) :
                /\ Cardinality(MatchesOf(key, r)) = 1
                /\ \A i \in MatchesOf(key, r) :
                     /\ NumEq(ret.matched[i].trigger_amount, aggregate(key).amount)
                     /\ \E u, w \in BOOLEAN :
                          LET savings == RuleSavings(r, key[1], aggregate(key), <<u, w>>)
                          IN  /\ NumEq(ret.matched[i].estimated_savings_co2e_kg,
                                       savings.co2e_kg)
                              /\ NumEq(ret.matched[i].estimated_savings_water_l,
                                       savings.water_l)
           /\ \A i \in 1..Len(ret.matched) :
                \E key \in keys : \E r \in MatchingRules(key) : i \in MatchesOf(key, r)
           /\ \A i \in 1..MatchedCount :
                ret.value[i] = [ret.matched[i] EXCEPT !.priority = i]

\* taxi_ice was logged twice, 5 and 2.5, with another item between, and the
\* taxi recommendations carry the amount 7.5
C7_Witness ==
  /\ op = "get_recommendations"
  /\ Len(args.daily_actions) = 3
  /\ args.daily_actions[1].item = taxi_ice
  /\ args.daily_actions[2].item = coffee
  /\ args.daily_actions[3].item = taxi_ice
  /\ args.daily_actions[1].amount # args.daily_actions[3].amount
  /\ Len(ret.action_totals) = 2
  /\ Cardinality({i \in 1..Len(ret.value) :
                    /\ IsMatched(ret.value[i])
                    /\ ret.value[i].trigger_item = taxi_ice
                    /\ NumEq(ret.value[i].trigger_amount, D(75, 1))}) = 2

\* C19: within one get_recommendations call no two returned recommendations
\* have the same (category, action text).
C19_NoRepeatedAction ==
  op = "get_recommendations"
    => /\ ret.exc = "none"
       /\ \A i \in 1..Len(ret.value) : \A j \in 1..Len(ret.value) :
            (ret.value[i].category = ret.value[j].category
               /\ ret.value[i].action = ret.value[j].action) => i = j

\* two rules of one trigger were emitted in one category, and a default of
\* that category was added behind them
C19_Witness ==
  /\ op = "get_recommendations"
  /\ \E i \in 1..Len(ret.value), j \in 1..Len(ret.value), k \in 1..Len(ret.value) :
       /\ i < j
       /\ IsMatched(ret.value[i]) /\ IsMatched(ret.value[j])
       /\ ret.value[i].trigger_item = ret.value[j].trigger_item
       /\ ret.value[i].category = ret.value[j].category
       /\ ~IsMatched(ret.value[k])
       /\ ret.value[k].category = ret.value[i].category

\* the rule a match came from
RuleOf(rec) ==
  RECOMMENDATION_RULES[CHOOSE r \in 1..Len(RECOMMENDATION_RULES) :
                         /\ RECOMMENDATION_RULES[r].category = rec.category
                         /\ RECOMMENDATION_RULES[r].trigger_item = rec.trigger_item
                         /\ RECOMMENDATION_RULES[r].action = rec.action]

\* the matches of rules with an alternative item
WithAlternative ==
  {i \in 1..Len(ret.matched) : RuleOf(ret.matched[i]).alternative_item # NoItem}

\* for a match: whether both factors of its rule are found, and then
\* (trigger factor per unit - alternative factor per unit) * aggregate amount
\* for CO2e and for water
LookedUp(rec) ==
  LET rule == RuleOf(rec)
      trigger == get_factor(rec.category, rule.trigger_item, None)
      alternative == get_factor(rec.category, rule.alternative_item, None)
  IN  IF trigger.exc = "none" /\ alternative.exc = "none"
        THEN [found |-> TRUE,
              co2e |-> Mul(Sub(trigger.value.co2e_per_unit,
                               alternative.value.co2e_per_unit), rec.trigger_amount),
              water |-> Mul(Sub(trigger.value.water_per_unit,
                                alternative.value.water_per_unit), rec.trigger_amount)]
        ELSE [found |-> FALSE, co2e |-> Zero, water |-> Zero]

\* every rule with an alternative item that a group triggers has its match
AllEmitted ==
  \A r \in LookupRules(ret.action_totals) :
    \E i \in WithAlternative : RuleOf(ret.matched[i]) = RECOMMENDATION_RULES[r]

\* C20 as stated: the savings of a rule with an alternative item are exactly
\* max(0, difference of the per-unit values * aggregate amount); (0, 0) when
\* a lookup fails, the recommendation is emitted and nothing is raised.
C20_SavingsAreFlooredDifference ==
  (op = "get_recommendations" /\ args.daily_actions # <<>>)
    => /\ ret.exc = "none"
       /\ AllEmitted
       /\ \A i \in WithAlternative :
            LET rec == ret.matched[i]
                raw == LookedUp(rec)
            IN  IF raw.found
                  THEN /\ NumEq(rec.estimated_savings_co2e_kg, Max0(raw.co2e))
                       /\ NumEq(rec.estimated_savings_water_l, Max0(raw.water))
                  ELSE /\ NumEq(rec.estimated_savings_co2e_kg, Zero)
                       /\ NumEq(rec.estimated_savings_water_l, Zero)

\* C20: the savings of a rule with an alternative item are
\* max(0, difference of the per-unit values * aggregate amount) rounded to
\* 4 decimal places for CO2e and to 2 for water, never negative; (0, 0) when
\* a lookup raises FactorNotFoundError, and then the recommendation is still
\* emitted and get_recommendations does not raise.
C20_SavingsAreRoundedFlooredDifference ==
  (op = "get_recommendations" /\ args.daily_actions # <<>>)
    => /\ ret.exc = "none"
       /\ AllEmitted
       /\ \A i \in WithAlternative :
            LET rec == ret.matched[i]
                raw == LookedUp(rec)
            IN  /\ ~NumLt(rec.estimated_savings_co2e_kg, Zero)
                /\ ~NumLt(rec.estimated_savings_water_l, Zero)
                /\ IF raw.found
                     THEN /\ IsRounded(rec.estimated_savings_co2e_kg, Max0(raw.co2e), 4)
                          /\ IsRounded(rec.estimated_savings_water_l, Max0(raw.water), 2)
                     ELSE /\ NumEq(rec.estimated_savings_co2e_kg, Zero)
                          /\ NumEq(rec.estimated_savings_water_l, Zero)

\* one call met an alternative that costs more than its trigger, whose
\* savings are 0, an alternative of no table, and a difference with more
\* places than are kept
C20_Witness ==
  /\ op = "get_recommendations"
  /\ ret.exc = "none"
  /\ Len(ret.matched) >= 3
  /\ \E i \in WithAlternative :
       /\ LookedUp(ret.matched[i]).found
       /\ NumLt(LookedUp(ret.matched[i]).co2e, Zero)
       /\ NumEq(ret.matched[i].estimated_savings_co2e_kg, Zero)
  /\ \E i \in WithAlternative :
       /\ ~LookedUp(ret.matched[i]).found
       /\ NumEq(ret.matched[i].estimated_savings_co2e_kg, Zero)
  /\ \E i \in WithAlternative :
       /\ LookedUp(ret.matched[i]).found
       /\ LookedUp(ret.matched[i]).water.e > 2
       /\ ~NumEq(ret.matched[i].estimated_savings_water_l, LookedUp(ret.matched[i]).water)

\* the matches of rules without an alternative item
WithoutAlternative ==
  {i \in 1..Len(ret.matched) : RuleOf(ret.matched[i]).alternative_item = NoItem}

\* 0.2 * the sum of co2e_kg over the records of a match's category and item
FifthOfAggregate(rec) ==
  Mul(SumField(args.daily_actions, <<rec.category, rec.trigger_item>>, "co2e_kg"),
      D(2, 1))

\* C21 as stated: for a matched rule without alternative_item the CO2e
\* savings are exactly 0.2 times the aggregate co2e_kg of the group, and the
\* water savings are 0.
C21_SavingsAreFifthOfAggregate ==
  (op = "get_recommendations" /\ args.daily_actions # <<>>)
    => \A i \in WithoutAlternative :
         /\ NumEq(ret.matched[i].estimated_savings_co2e_kg,
                  FifthOfAggregate(ret.matched[i]))
         /\ NumEq(ret.matched[i].estimated_savings_water_l, Zero)

\* C21: for a matched rule without alternative_item the CO2e savings are
\* 0.2 times the aggregate co2e_kg of the group, rounded to 4 decimal places,
\* and the water savings are 0.
C21_SavingsAreRoundedFifthOfAggregate ==
  (op = "get_recommendations" /\ args.daily_actions # <<>>)
    => \A i \in WithoutAlternative :
         /\ IsRounded(ret.matched[i].estimated_savings_co2e_kg,
                      FifthOfAggregate(ret.matched[i]), 4)
         /\ NumEq(ret.matched[i].estimated_savings_water_l, Zero)

\* two records of one item were summed, and a fifth of the sum has more
\* places than are kept
C21_Witness ==
  /\ op = "get_recommendations"
  /\ \E i \in WithoutAlternative :
       /\ Cardinality({k \in 1..Len(args.daily_actions) :
                         args.daily_actions[k].item = ret.matched[i].trigger_item}) = 2
       /\ FifthOfAggregate(ret.matched[i]).e > 4
       /\ ~NumEq(ret.matched[i].estimated_savings_co2e_kg,
                 FifthOfAggregate(ret.matched[i]))
       /\ NumLt(Zero, ret.matched[i].estimated_savings_co2e_kg)

\* a recommendation without its priority
Unranked(rec) == [rec EXCEPT !.priority = 0]

\* C22: for a non-empty record list with m matches and max_count >= 0 the
\* result is the min(m, max_count) highest-savings matches followed, when
\* m < max_count, by the first max_count - m defaults in their fixed order;
\* it has at most max_count entries and the entry at position i has
\* priority i, across matches and padded defaults.
C22_PriorityIsPosition ==
  (/\ op = "get_recommendations"
   /\ args.daily_actions # <<>>
   /\ args.max_recommendations >= 0)
    => LET m == Len(ret.matched)
           kept == IF m < args.max_recommendations THEN m
                   ELSE args.max_recommendations
       IN  /\ Len(ret.value) <= args.max_recommendations
           /\ Len(ret.value) >= kept
           /\ \A i \in 1..kept : Unranked(ret.value[i]) = Unranked(ret.matched[i])
           /\ \A i \in 1..m, j \in 1..m :
                i < j => ~NumLt(ret.matched[i].estimated_savings_co2e_kg,
                                ret.matched[j].estimated_savings_co2e_kg)
           /\ \A i \in (kept + 1)..Len(ret.value) :
                Unranked(ret.value[i]) = Unranked(Defaults[i - kept])
           /\ m < args.max_recommendations
                => Len(ret.value) - kept
                     = Len(get_default_recommendations(args.max_recommendations - m))
           /\ \A i \in 1..Len(ret.value) : ret.value[i].priority = i

\* the position of a match's rule in RECOMMENDATION_RULES
RuleIndex(rec) ==
  CHOOSE r \in 1..Len(RECOMMENDATION_RULES) : RECOMMENDATION_RULES[r] = RuleOf(rec)

\* C23: matched recommendations with equal estimated CO2e savings come in
\* the order of their rules in the rule table, whatever the order of the
\* input records and also when the tied rules have different trigger items.
C23_TiesInRuleTableOrder ==
  op = "get_recommendations"
    => \A i, j \in 1..MatchedCount :
         (/\ i < j
          /\ NumEq(ret.value[i].estimated_savings_co2e_kg,
                   ret.value[j].estimated_savings_co2e_kg))
           => RuleIndex(ret.value[i]) < RuleIndex(ret.value[j])

(***************************************************************************)
(* Message Parser                                                          *)
(*                                                                         *)
(* A keyword table is the dictionary in insertion order: a sequence of     *)
(* <<keyword, item, category>>.  No keyword occurs twice, so merging the   *)
(* four dictionaries is concatenation.                                     *)
(***************************************************************************)
MOBILITY_KEYWORDS ==
  <<
     <<<<53469, 49884>>, taxi_ice, "mobility">>,  \* "택시"
     <<<<51204, 44592, 53469, 49884>>, taxi_ev, "mobility">>,  \* "전기택시"
     <<<<48260, 49828>>, bus, "mobility">>,  \* "버스"
     <<<<51648, 54616, 52384>>, subway, "mobility">>,  \* "지하철"
     <<<<51088, 51204, 44144>>, bicycle, "mobility">>,  \* "자전거"
     <<<<44152, 50612>>, walking, "mobility">>,  \* "걸어"
     <<<<46020, 48372>>, walking, "mobility">>,  \* "도보"
     <<<<52264>>, car_gasoline, "mobility">>,  \* "차"
     <<<<51088, 46041, 52264>>, car_gasoline, "mobility">>,  \* "자동차"
     <<<<51204, 44592, 52264>>, car_ev, "mobility">>,  \* "전기차"
     <<<<50724, 53664, 48148, 51060>>, motorcycle, "mobility">>,  \* "오토바이"
     <<<<53413, 48372, 46300>>, escooter, "mobility">>,  \* "킥보드"
     <<<<116, 97, 120, 105>>, taxi_ice, "mobility">>,  \* "taxi"
     <<<<117, 98, 101, 114>>, taxi_ice, "mobility">>,  \* "uber"
     <<<<98, 117, 115>>, bus, "mobility">>,  \* "bus"
     <<<<115, 117, 98, 119, 97, 121>>, subway, "mobility">>,  \* "subway"
     <<<<109, 101, 116, 114, 111>>, subway, "mobility">>,  \* "metro"
     <<<<98, 105, 107, 101>>, bicycle, "mobility">>,  \* "bike"
     <<<<98, 105, 99, 121, 99, 108, 101>>, bicycle, "mobility">>,  \* "bicycle"
     <<<<119, 97, 108, 107>>, walking, "mobility">>,  \* "walk"
     <<<<99, 97, 114>>, car_gasoline, "mobility">>,  \* "car"
     <<<<100, 114, 105, 118, 101>>, car_gasoline, "mobility">>   \* "drive"
  >>

FOOD_KEYWORDS ==
  <<
     <<<<49548, 44256, 44592>>, beef_meal, "purchase">>,  \* "소고기"
     <<<<49632, 44256, 44592>>, beef_meal, "purchase">>,  \* "쇠고기"
     <<<<49828, 53580, 51060, 53356>>, beef_meal, "purchase">>,  \* "스테이크"
     <<<<46076, 51648, 44256, 44592>>, pork_meal, "purchase">>,  \* "돼지고기"
     <<<<49340, 44217, 49332>>, pork_meal, "purchase">>,  \* "삼겹살"
     <<<<45805, 44256, 44592>>, chicken_meal, "purchase">>,  \* "닭고기"
     <<<<52824, 53416>>, chicken_meal, "purchase">>,  \* "치킨"
     <<<<49373, 49440>>, fish_meal, "purchase">>,  \* "생선"
     <<<<52292, 49885>>, vegetarian_meal, "purchase">>,  \* "채식"
     <<<<48708, 44148>>, vegan_meal, "purchase">>,  \* "비건"
     <<<<52964, 54588>>, coffee, "purchase">>,  \* "커피"
     <<<<50500, 47700, 47532, 52852, 45432>>, coffee, "purchase">>,  \* "아메리카노"
     <<<<46972, 46524>>, coffee, "purchase">>,  \* "라떼"
     <<<<50864, 50976>>, milk_liter, "purchase">>,  \* "우유"
     <<<<98, 101, 101, 102>>, beef_meal, "purchase">>,  \* "beef"
     <<<<115, 116, 101, 97, 107>>, beef_meal, "purchase">>,  \* "steak"
     <<<<112, 111, 114, 107>>, pork_meal, "purchase">>,  \* "pork"
     <<<<99, 104, 105, 99, 107, 101, 110>>, chicken_meal, "purchase">>,  \* "chicken"
     <<<<102, 105, 115, 104>>, fish_meal, "purchase">>,  \* "fish"
     <<<<118, 101, 103, 101, 116, 97, 114, 105, 97, 110>>, vegetarian_meal, "purchase">>,  \* "vegetarian"
     <<<<118, 101, 103, 97, 110>>, vegan_meal, "purchase">>,  \* "vegan"
     <<<<99, 111, 102, 102, 101, 101>>, coffee, "purchase">>,  \* "coffee"
     <<<<109, 105, 108, 107>>, milk_liter, "purchase">>   \* "milk"
  >>

FASHION_KEYWORDS ==
  <<
     <<<<54000, 49492, 52768>>, tshirt_fastfashion, "purchase">>,  \* "티셔츠"
     <<<<50743>>, tshirt_fastfashion, "purchase">>,  \* "옷"
     <<<<52397, 48148, 51648>>, jeans_fastfashion, "purchase">>,  \* "청바지"
     <<<<48148, 51648>>, jeans_fastfashion, "purchase">>,  \* "바지"
     <<<<49888, 48156>>, sneakers_new, "purchase">>,  \* "신발"
     <<<<50868, 46041, 54868>>, sneakers_new, "purchase">>,  \* "운동화"
     <<<<51473, 44256>>, tshirt_secondhand, "purchase">>,  \* "중고"
     <<<<116, 115, 104, 105, 114, 116>>, tshirt_fastfashion, "purchase">>,  \* "tshirt"
     <<<<116, 45, 115, 104, 105, 114, 116>>, tshirt_fastfashion, "purchase">>,  \* "t-shirt"
     <<<<115, 104, 105, 114, 116>>, tshirt_fastfashion, "purchase">>,  \* "shirt"
     <<<<106, 101, 97, 110, 115>>, jeans_fastfashion, "purchase">>,  \* "jeans"
     <<<<112, 97, 110, 116, 115>>, jeans_fastfashion, "purchase">>,  \* "pants"
     <<<<115, 104, 111, 101, 115>>, sneakers_new, "purchase">>,  \* "shoes"
     <<<<115, 110, 101, 97, 107, 101, 114, 115>>, sneakers_new, "purchase">>,  \* "sneakers"
     <<<<115, 101, 99, 111, 110, 100, 104, 97, 110, 100>>, tshirt_secondhand, "purchase">>,  \* "secondhand"
     <<<<117, 115, 101, 100>>, tshirt_secondhand, "purchase">>   \* "used"
  >>

ENERGY_KEYWORDS ==
  <<
     <<<<51204, 44592>>, electricity_kwh, "home_energy">>,  \* "전기"
     <<<<50640, 50612, 52968>>, electricity_kwh, "home_energy">>,  \* "에어컨"
     <<<<45257, 48169>>, electricity_kwh, "home_energy">>,  \* "냉방"
     <<<<45212, 48169>>, natural_gas_m3, "home_energy">>,  \* "난방"
     <<<<44032, 49828>>, natural_gas_m3, "home_energy">>,  \* "가스"
     <<<<48372, 51068, 47084>>, natural_gas_m3, "home_energy">>,  \* "보일러"
     <<<<49380, 50892>>, hot_water_shower, "home_energy">>,  \* "샤워"
     <<<<101, 108, 101, 99, 116, 114, 105, 99, 105, 116, 121>>, electricity_kwh, "home_energy">>,  \* "electricity"
     <<<<101, 108, 101, 99, 116, 114, 105, 99>>, electricity_kwh, "home_energy">>,  \* "electric"
     <<<<97, 99>>, electricity_kwh, "home_energy">>,  \* "ac"
     <<<<97, 105, 114, 32, 99, 111, 110, 100, 105, 116, 105, 111, 110, 105, 110, 103>>, electricity_kwh, "home_energy">>,  \* "air conditioning"
     <<<<104, 101, 97, 116, 105, 110, 103>>, natural_gas_m3, "home_energy">>,  \* "heating"
     <<<<103, 97, 115>>, natural_gas_m3, "home_energy">>,  \* "gas"
     <<<<115, 104, 111, 119, 101, 114>>, hot_water_shower, "home_energy">>   \* "shower"
  >>

ALL_KEYWORDS ==
  MOBILITY_KEYWORDS \o FOOD_KEYWORDS \o FASHION_KEYWORDS \o ENERGY_KEYWORDS

\* \d, for the digits the model draws: 0 to 9
\* the code points of the digit zero in every script: the regular
\* expression \d matches the ten decimal digits from each, and float()
\* reads them by their digit value
DigitZeros ==
  { 48, 1632, 1776, 1984, 2406, 2534, 2662, 2790, 2918, 3046,
    3174, 3302, 3430, 3558, 3664, 3792, 3872, 4160, 4240, 6112,
    6160, 6470, 6608, 6784, 6800, 6992, 7088, 7232, 7248, 42528,
    43216, 43264, 43472, 43504, 43600, 44016, 65296, 66720, 68912, 69734,
    69872, 69942, 70096, 70384, 70736, 70864, 71248, 71360, 71472, 71904,
    72016, 72784, 73040, 73120, 92768, 92864, 93008, 120782, 120792, 120802,
    120812, 120822, 123200, 123632, 125264, 130032 }

\* what \d matches: the Unicode decimal digits
Digits == UNION {z..(z + 9) : z \in DigitZeros}

\* the digit value of a decimal digit
DigitValue(c) == c - (CHOOSE z \in DigitZeros : z <= c /\ c <= z + 9)

\* the unit alternatives of the patterns, in the order they are tried; each
\* pattern is (\d+(?:\.\d+)?)\s*(?:unit|...)
NUMBER_PATTERNS ==
  <<
    <<<<107, 109>>,
      <<53420, 47196>>,
      <<53420, 47196, 48120, 53552>>>>,  \* km|킬로|킬로미터
    <<<<48264>>,
      <<44060>>,
      <<51092>>,
      <<48268>>,
      <<53028, 47112>>,
      <<51064, 48516>>>>,  \* 번|개|잔|벌|켤레|인분
    <<<<107, 87, 104>>,
      <<53420, 47196, 50752, 53944>>>>,  \* kWh|킬로와트
    <<<<49884, 44036>>,
      <<48516>>>>,  \* 시간|분
    << <<>> >>  \* the general number: nothing behind it
  >>

\* word at offset i of text, offsets from 0
StartsWithAt(text, word, i) ==
  /\ i + Len(word) <= Len(text)
  /\ \A k \in 1..Len(word) : text[i + k] = word[k]

\* word in text
Contains(text, word) ==
  \E i \in 0..(Len(text) - Len(word)) : StartsWithAt(text, word, i)

\* the least element
Min(S) == CHOOSE x \in S : \A y \in S : x <= y

\* text.index(word), for a word in text
Index(text, word) ==
  Min({i \in 0..(Len(text) - Len(word)) : StartsWithAt(text, word, i)})

\* the loop over ALL_KEYWORDS: <<pos, keyword, item, category>> of the
\* keywords in the message, in dictionary order
FoundKeywords(message_lower) ==
  LET hits == {k \in 1..Len(ALL_KEYWORDS) : Contains(message_lower, ALL_KEYWORDS[k][1])}
      hit(n) == CHOOSE k \in hits : Cardinality({h \in hits : h < k}) = n - 1
  IN  [n \in 1..Cardinality(hits) |->
         <<Index(message_lower, ALL_KEYWORDS[hit(n)][1]), ALL_KEYWORDS[hit(n)][1],
           ALL_KEYWORDS[hit(n)][2], ALL_KEYWORDS[hit(n)][3]>>]

\* found put into a list sorted by pos, behind its equals
RECURSIVE InsertByPos(_, _)
InsertByPos(sorted, found) ==
  IF sorted = <<>> THEN <<found>>
  ELSE IF found[1] < Head(sorted)[1] THEN <<found>> \o sorted
  ELSE <<Head(sorted)>> \o InsertByPos(Tail(sorted), found)

\* faulty variant: the keywords left in dictionary order
SortedByPosUnsorted(found_keywords) == found_keywords

\* found_keywords.sort(key = pos): stable
RECURSIVE SortedByPos(_)
SortedByPos(found_keywords) ==
  IF found_keywords = <<>> THEN <<>>
  ELSE InsertByPos(SortedByPos(SubSeq(found_keywords, 1, Len(found_keywords) - 1)),
                   found_keywords[Len(found_keywords)])

\* faulty variant: every found keyword kept
UniqueKeywordsAll(found_keywords, seen_items) == found_keywords

\* the first entry of every item
RECURSIVE UniqueKeywords(_, _)
UniqueKeywords(found_keywords, seen_items) ==
  IF found_keywords = <<>> THEN <<>>
  ELSE IF Head(found_keywords)[3] \in seen_items
    THEN UniqueKeywords(Tail(found_keywords), seen_items)
    ELSE <<Head(found_keywords)>>
           \o UniqueKeywords(Tail(found_keywords),
                             seen_items \cup {Head(found_keywords)[3]})

\* the offset behind the run of characters of chars that starts at offset i
RECURSIVE RunEnd(_, _, _)
RunEnd(text, i, chars) ==
  IF i < Len(text) /\ text[i + 1] \in chars THEN RunEnd(text, i + 1, chars) ELSE i

\* the offset behind the greedy match of \d+(?:\.\d+)? at a digit at offset i
NumberEnd(text, i) ==
  LET int_end == RunEnd(text, i, Digits)
  IN  IF int_end + 2 <= Len(text) /\ text[int_end + 1] = 46
           /\ text[int_end + 2] \in Digits
        THEN RunEnd(text, int_end + 1, Digits)
        ELSE int_end

\* pattern p matches at offset i.  A unit starts with no digit, dot or
\* blank, so no shorter number and no shorter run of blanks lets a unit
\* match where the greedy ones do not.
MatchesAt(text, p, i) ==
  /\ i < Len(text)
  /\ text[i + 1] \in Digits
  /\ \E unit \in {NUMBER_PATTERNS[p][u] : u \in 1..Len(NUMBER_PATTERNS[p])} :
       StartsWithAt(text, unit, RunEnd(text, NumberEnd(text, i), Whitespace))

\* the offsets where pattern p matches
MatchStarts(text, p) == {i \in 0..(Len(text) - 1) : MatchesAt(text, p, i)}

RECURSIVE DigitsValue(_)
DigitsValue(s) ==
  IF s = <<>> THEN 0
  ELSE 10 * DigitsValue(SubSeq(s, 1, Len(s) - 1)) + DigitValue(s[Len(s)])

\* float() of digits with at most one dot between them
Float(s) ==
  IF \E d \in 1..Len(s) : s[d] = 46
    THEN LET d == CHOOSE d \in 1..Len(s) : s[d] = 46
         IN  D(DigitsValue(SubSeq(s, 1, d - 1) \o SubSeq(s, d + 1, Len(s))), Len(s) - d)
    ELSE D(DigitsValue(s), 0)

\* the loop over NUMBER_PATTERNS from pattern p on
RECURSIVE ExtractFrom(_, _)
ExtractFrom(text, p) ==
  IF p > Len(NUMBER_PATTERNS) THEN D(1, 0)
  ELSE IF MatchStarts(text, p) # {}
    THEN LET i == Min(MatchStarts(text, p))
         IN  Float(SubSeq(text, i + 1, NumberEnd(text, i)))
    ELSE ExtractFrom(text, p + 1)

extract_number(text) == ExtractFrom(text, 1)

WindowChars == 20

\* message[start:end] around the keyword
Context(message, pos, keyword) ==
  LET start == IF pos - WindowChars > 0 THEN pos - WindowChars ELSE 0
      end == IF pos + Len(keyword) + WindowChars < Len(message)
               THEN pos + Len(keyword) + WindowChars ELSE Len(message)
  IN  SubSeq(message, start + 1, end)

\* confidence = 0.8 if amount != 1.0 else 0.6
Confidence(amount) == IF ~NumEq(amount, D(1, 0)) THEN D(8, 1) ELSE D(6, 1)

\* parse_message with its locals: [value, found_keywords, unique_keywords]
parse_message(message) ==
  LET message_lower == Lower(message)
      found_keywords == SortedByPos(FoundKeywords(message_lower))
      unique_keywords == UniqueKeywords(found_keywords, {})
  IN  [exc |-> "none",
       value |->
         [i \in 1..Len(unique_keywords) |->
            LET amount == extract_number(Context(message, unique_keywords[i][1],
                                                 unique_keywords[i][2]))
            IN  [category |-> unique_keywords[i][4],
                 item |-> unique_keywords[i][3],
                 amount |-> amount,
                 confidence |-> Confidence(amount),
                 original_text |-> message]],
       found_keywords |-> found_keywords,
       unique_keywords |-> unique_keywords]

(***************************************************************************)
(* Inputs of the Message Parser                                            *)
(***************************************************************************)
MaxFrags == 3

\* the pieces messages are made of: "택시", "전기", "Taxi", "커피", "1", "2.5", "5km", "３잔"
\* (the digit is U+FF13, fullwidth three), " ", twenty underscores, as long as
\* the window reaches, and U+0130 with eighteen underscores
Fragments ==
  { <<53469, 49884>>,
    <<51204, 44592>>,
    <<84, 97, 120, 105>>,
    <<52964, 54588>>,
    <<49>>,
    <<50, 46, 53>>,
    <<53, 107, 109>>,
    <<65299, 51092>>,
    <<32>>,
    <<95, 95, 95, 95, 95, 95, 95, 95, 95, 95, 95, 95, 95, 95, 95, 95, 95, 95, 95, 95>>,
    <<304, 95, 95, 95, 95, 95, 95, 95, 95, 95, 95, 95, 95, 95, 95, 95, 95, 95, 95>> }

RECURSIVE Concat(_)
Concat(parts) == IF parts = <<>> THEN <<>> ELSE Head(parts) \o Concat(Tail(parts))

Messages == {Concat(parts) : parts \in UNION {[1..n -> Fragments] : n \in 0..MaxFrags}}

\* parse_message(message)
ParseMessage ==
  /\ op = "idle"
  /\ \E message \in Messages :
       /\ op' = "parse_message"
       /\ args' = [message |-> message]
       /\ ret' = parse_message(message)
  /\ UNCHANGED <<emission_loaded, product_loaded>>
  /\ UNCHANGED <<threadvars, storevars, modulevars, sessionvars>>

NextParse == ParseMessage \/ Return

SpecParse == Init /\ [][NextParse]_vars

(***************************************************************************)
(* Claims about the Message Parser                                         *)
(***************************************************************************)

\* each action stands for the entry of unique_keywords at its place, and the
\* entry's pos is where its keyword first starts in the case-folded message
ActionsFollowKeywords ==
  /\ Len(ret.value) = Len(ret.unique_keywords)
  /\ \A i \in 1..Len(ret.value) :
       LET found == ret.unique_keywords[i]
           message_lower == Lower(args.message)
       IN  /\ ret.value[i].item = found[3]
           /\ ret.value[i].category = found[4]
           /\ StartsWithAt(message_lower, found[2], found[1])
           /\ \A j \in 0..(found[1] - 1) : ~StartsWithAt(message_lower, found[2], j)

\* C8: the actions are in ascending order of the offset at which the keyword
\* that produced each of them first starts in the case-folded message.
C8_ActionsAscendByOffset ==
  op = "parse_message"
    => /\ ActionsFollowKeywords
       /\ \A i, j \in 1..Len(ret.value) :
            i < j => ret.unique_keywords[i][1] <= ret.unique_keywords[j][1]

\* coffee stands before the taxi in the message and behind it in the
\* dictionary
C8_Witness ==
  /\ op = "parse_message"
  /\ Len(ret.value) = 2
  /\ ret.value[1].item = coffee
  /\ ret.value[2].item = taxi_ice
  /\ ret.unique_keywords[1][1] < ret.unique_keywords[2][1]

\* a pattern of NUMBER_PATTERNS matches in the text
NumberFound(text) ==
  \E p \in 1..Len(NUMBER_PATTERNS) : MatchStarts(text, p) # {}

\* C9 as stated: the confidence of every action is 0.8 if a number was found
\* in the window of its keyword and 0.6 if none was.
C9_ConfidenceTellsNumberFound ==
  op = "parse_message"
    => \A i \in 1..Len(ret.value) :
         ret.value[i].confidence =
           IF NumberFound(Context(args.message, ret.unique_keywords[i][1],
                                  ret.unique_keywords[i][2]))
             THEN D(8, 1) ELSE D(6, 1)

\* the keywords of the dictionary that occur in the case-folded message
Occurring ==
  LET message_lower == Lower(args.message)
  IN  {k \in 1..Len(ALL_KEYWORDS) : Contains(message_lower, ALL_KEYWORDS[k][1])}

\* C10: there is exactly one action per distinct item among the keywords that
\* occur in the case-folded message, made from an occurrence of the lowest
\* offset among the item's keywords; without any keyword the result is the
\* empty list and no error.
C10_OneActionPerItem ==
  op = "parse_message"
    => LET occurring == Occurring
           items == {ALL_KEYWORDS[k][2] : k \in occurring}
           message_lower == Lower(args.message)
       IN  /\ ret.exc = "none"
           /\ ActionsFollowKeywords
           /\ Len(ret.value) = Cardinality(items)
           /\ {ret.value[i].item : i \in 1..Len(ret.value)} = items
           /\ \A i \in 1..Len(ret.value) :
                ret.unique_keywords[i][1] =
                  Min({Index(message_lower, ALL_KEYWORDS[k][1]) :
                         k \in {o \in occurring : ALL_KEYWORDS[o][2] = ret.value[i].item}})
           /\ occurring = {} => ret.value = <<>>

\* "taxi" and the Korean keyword for the same item both occur, the Korean
\* one later in the message and earlier in the dictionary; one action is
\* returned, for the offset of "taxi"
C10_Witness ==
  /\ op = "parse_message"
  /\ Cardinality({k \in Occurring : ALL_KEYWORDS[k][2] = taxi_ice}) = 2
  /\ Len(ret.value) = 1
  /\ ret.value[1].item = taxi_ice
  /\ ret.unique_keywords[1][2] = <<116, 97, 120, 105>>
  /\ ret.unique_keywords[1][1] = 0

\* where in the message the keyword found at pos of the case-folded message
\* starts
KeywordStart(message, pos) ==
  CHOOSE j \in 0..Len(message) : Len(Lower(SubSeq(message, 1, j))) = pos

\* up to 20 characters before the keyword through 20 characters after it
KeywordWindow(message, pos, keyword) ==
  LET at == KeywordStart(message, pos)
      first == IF at - 20 > 0 THEN at - 20 ELSE 0
      last == IF at + Len(keyword) + 20 < Len(message)
                THEN at + Len(keyword) + 20 ELSE Len(message)
  IN  SubSeq(message, first + 1, last)

\* amount is what the first pattern, in the fixed order, that matches
\* anywhere in text captures at its leftmost match; 1.0 if none matches
IsAmountOf(amount, text) ==
  IF \A p \in 1..Len(NUMBER_PATTERNS) : MatchStarts(text, p) = {}
    THEN amount = D(1, 0)
    ELSE \E p \in 1..Len(NUMBER_PATTERNS) :
           /\ MatchStarts(text, p) # {}
           /\ \A q \in 1..(p - 1) : MatchStarts(text, q) = {}
           /\ \E i \in MatchStarts(text, p) :
                /\ \A j \in MatchStarts(text, p) : i <= j
                /\ amount = Float(SubSeq(text, i + 1, NumberEnd(text, i)))

\* C24: the amount of each action is taken from the window of up to 20
\* characters before its keyword through 20 characters after it: the
\* patterns are tried in their fixed order (distance, count, energy,
\* duration, bare number), the first that matches anywhere in the window
\* supplies the amount, and the amount is 1.0 if none matches.
C24_AmountFromKeywordWindow ==
  op = "parse_message"
    => \A i \in 1..Len(ret.value) :
         IsAmountOf(ret.value[i].amount,
                    KeywordWindow(args.message, ret.unique_keywords[i][1],
                                  ret.unique_keywords[i][2]))

\* C24, with the window the code cuts: its bounds are the keyword's offset
\* in the case-folded message, applied to the message as written.
C24_AmountFromCutWindow ==
  op = "parse_message"
    => \A i \in 1..Len(ret.value) :
         IsAmountOf(ret.value[i].amount,
                    Context(args.message, ret.unique_keywords[i][1],
                            ret.unique_keywords[i][2]))

(***************************************************************************)
(* The factor caches under threads                                         *)
(***************************************************************************)
MaxCalls == 4

\* the top-level keys of the two files, in the order json.load meets them
TopLevelKeys(f) ==
  IF f = "emission" THEN <<"mobility", "home_energy", "metadata">>
  ELSE <<"purchase", "metadata">>

\* the calls the threads make
FactorCalls ==
  {[call |-> "get_factor",
    args |-> [category |-> a[1], item |-> a[2], subcategory |-> None]] :
     a \in {<<"mobility", taxi_ice>>, <<"purchase", beef_meal>>,
            <<"invalid_category", taxi_ice>>}}
    \cup {[call |-> "get_all_factors", args |-> <<>>],
          [call |-> "clear_factor_cache", args |-> <<>>]}

\* the loaders a call goes through, in its order
Tables(c) ==
  IF c.call = "get_factor"
    THEN IF LoadsEmission(c.args.category) THEN <<"emission">>
         ELSE IF LoadsProduct(c.args.category) THEN <<"product">>
         ELSE <<>>
    ELSE <<"emission", "product">>

\* faulty variant: the loader fills the dict the cache hands out
CacheWhileLoadingShared(c, f, built) == [c EXCEPT ![f] = Held(built)]

\* what the cache holds while a loader body parses: json.load builds a dict
\* of its own
CacheWhileLoading(c, f, built) == c

\* faulty variant: cache_clear leaves the entry in place
ClearedCacheKept(c, f) == c

\* cache_clear() of loader f
ClearedCache(c, f) == [c EXCEPT ![f] = NoTable]

\* the keys populated in a table a thread holds
Seen(table) == {table.keys[i] : i \in 1..Len(table.keys)}

\* what the call of a thread returns on the tables it holds
Result(th) ==
  IF th.call = "get_all_factors"
    THEN Returned(AllFactors(Seen(th.factors["emission"]), Seen(th.factors["product"])))
  ELSE IF \/ Tables(th) = <<>>
          \/ th.args.category \in Seen(th.factors[Tables(th)[1]])
    THEN get_factor(th.args.category, th.args.item, th.args.subcategory)
  ELSE RaiseFactorNotFound

\* the log with a completed call added, when a log is kept
Logged(th, result, c, runs) ==
  IF calls.on
    THEN [calls EXCEPT !.done =
            Append(@, [call |-> th.call, args |-> th.args, result |-> result,
                       cached |-> {f \in Loaders : c[f].present}, runs |-> runs])]
    ELSE calls

\* the thread after the loader call at the head of todo
AfterLoader(th) ==
  [th EXCEPT !.todo = Tail(@),
             !.built = <<>>,
             !.pc = IF Tail(th.todo) = <<>> THEN "compute" ELSE "lookup"]

\* a thread enters get_factor, get_all_factors or clear_factor_cache
Call(t) ==
  /\ thread[t].pc = "idle"
  /\ calls.on => Len(calls.done) < MaxCalls
  /\ \E c \in FactorCalls :
       thread' = [thread EXCEPT ![t] =
                    [IdleThread EXCEPT
                       !.call = c.call, !.args = c.args, !.todo = Tables(c),
                       !.pc = IF c.call = "clear_factor_cache" THEN "cache_clear"
                              ELSE IF Tables(c) = <<>> THEN "compute"
                              ELSE "lookup"]]
  /\ UNCHANGED <<cache, loader_runs, calls, callervars, storevars, modulevars, sessionvars>>

\* the lru_cache wrapper looks its entry up: a hit hands the cached dict
\* out, a miss calls the loader
CacheLookup(t) ==
  /\ thread[t].pc = "lookup"
  /\ LET f == Head(thread[t].todo) IN
     IF cache[f].present
       THEN /\ thread' = [thread EXCEPT ![t] =
                            AfterLoader([thread[t] EXCEPT !.factors[f] = cache[f]])]
            /\ UNCHANGED loader_runs
       ELSE /\ thread' = [thread EXCEPT ![t].pc = "body"]
            /\ loader_runs' = [loader_runs EXCEPT ![f] = @ + 1]
  /\ UNCHANGED <<cache, calls, callervars, storevars, modulevars, sessionvars>>

\* json.load parses the next top-level key of the file
LoaderStep(t) ==
  /\ thread[t].pc = "body"
  /\ LET f == Head(thread[t].todo)
         built == thread[t].built
     IN  /\ Len(built) < Len(TopLevelKeys(f))
         /\ thread' = [thread EXCEPT ![t].built =
                         Append(built, TopLevelKeys(f)[Len(built) + 1])]
         /\ cache' = CacheWhileLoading(cache, f, thread'[t].built)
  /\ UNCHANGED <<loader_runs, calls, callervars, storevars, modulevars, sessionvars>>

\* the loader returns the parsed dict; the wrapper stores it and hands it out
LoaderReturn(t) ==
  /\ thread[t].pc = "body"
  /\ LET f == Head(thread[t].todo)
         built == thread[t].built
     IN  /\ Len(built) = Len(TopLevelKeys(f))
         /\ cache' = [cache EXCEPT ![f] = Held(built)]
         /\ thread' = [thread EXCEPT ![t] =
                         AfterLoader([thread[t] EXCEPT !.factors[f] = Held(built)])]
  /\ UNCHANGED <<loader_runs, calls, callervars, storevars, modulevars, sessionvars>>

\* the rest of get_factor or get_all_factors, on the tables in hand
Compute(t) ==
  /\ thread[t].pc = "compute"
  /\ calls' = Logged(thread[t], Result(thread[t]), cache, loader_runs)
  /\ thread' = [thread EXCEPT ![t] = IdleThread]
  /\ UNCHANGED <<cache, loader_runs, callervars, storevars, modulevars, sessionvars>>

\* one of the two cache_clear() calls of clear_factor_cache
CacheClear(t) ==
  /\ thread[t].pc = "cache_clear"
  /\ LET f == Head(thread[t].todo) IN
     /\ cache' = ClearedCache(cache, f)
     /\ loader_runs' = [loader_runs EXCEPT ![f] = 0]
     /\ IF Tail(thread[t].todo) = <<>>
          THEN /\ calls' = Logged(thread[t], Returned(None), cache', loader_runs')
               /\ thread' = [thread EXCEPT ![t] = IdleThread]
          ELSE /\ thread' = [thread EXCEPT ![t].todo = Tail(@)]
               /\ UNCHANGED calls
  /\ UNCHANGED <<callervars, storevars, modulevars, sessionvars>>

NextCache ==
  \E t \in Threads :
    \/ Call(t)
    \/ CacheLookup(t)
    \/ LoaderStep(t)
    \/ LoaderReturn(t)
    \/ Compute(t)
    \/ CacheClear(t)

\* every thread calls; no log is kept
InitCache ==
  /\ CallerIdle
  /\ StoreEmpty
  /\ ModuleFresh
  /\ SessionNew
  /\ cache = [f \in Loaders |-> NoTable]
  /\ thread = [t \in Threads |-> IdleThread]
  /\ loader_runs = [f \in Loaders |-> 0]
  /\ calls = [on |-> FALSE, done |-> <<>>]

SpecCache == InitCache /\ [][NextCache]_vars

\* one thread calls, and its completed calls are logged
InitOneThread ==
  /\ CallerIdle
  /\ StoreEmpty
  /\ ModuleFresh
  /\ SessionNew
  /\ cache = [f \in Loaders |-> NoTable]
  /\ thread = [t \in Threads |-> IF t = 1 THEN IdleThread ELSE ParkedThread]
  /\ loader_runs = [f \in Loaders |-> 0]
  /\ calls = [on |-> TRUE, done |-> <<>>]

SpecOneThread == InitOneThread /\ [][NextCache]_vars

(***************************************************************************)
(* Claims about the factor caches                                          *)
(***************************************************************************)

\* C12: concurrent first accesses are serialized so that each table's
\* loader body is executed once: between two clears no loader runs twice.
C12_EachTableLoadedOnce ==
  \A f \in Loaders : loader_runs[f] <= 1

\* C17: every table a caller of get_factor or get_all_factors has in hand,
\* and every table the cache holds for the next caller, is completely
\* loaded; a caller that finds no table runs the loader.
C17_NoPartialTable ==
  /\ \A f \in Loaders : cache[f].present => cache[f].keys = TopLevelKeys(f)
  /\ \A t \in Threads : \A f \in Loaders :
       thread[t].factors[f].present => thread[t].factors[f].keys = TopLevelKeys(f)
  /\ \A t \in Threads :
       thread[t].pc = "body" => ~thread[t].factors[Head(thread[t].todo)].present

\* one thread is half way through the emission file while another computes
\* on a table it was handed, and the cache has been cleared since
C17_Witness ==
  \E t \in Threads, u \in Threads :
    /\ thread[t].pc = "body"
    /\ Head(thread[t].todo) = "emission"
    /\ Len(thread[t].built) = 1
    /\ thread[u].pc = "compute"
    /\ thread[u].factors["emission"].present
    /\ ~cache["emission"].present

\* the cache state before the i-th logged call
CachedBefore(i) == IF i = 1 THEN {} ELSE calls.done[i - 1].cached

IsClear(i) == calls.done[i].call = "clear_factor_cache"

\* C13: in a sequence of calls clear_factor_cache always returns, on an
\* empty and on a loaded cache, and leaves both caches empty, so that a
\* second clear changes nothing; a lookup after a clear runs the loader
\* again; equal lookups return equal values whatever clears lie between; and
\* two get_all_factors calls return identical results.
C13_ClearIsSafeAndIdempotent ==
  calls.on =>
    LET done == calls.done IN
    /\ \A i \in 1..Len(done) :
         IsClear(i) => /\ done[i].result = Returned(None)
                       /\ done[i].cached = {}
    /\ \A i \in 1..Len(done) - 1 :
         (IsClear(i) /\ IsClear(i + 1))
           => /\ done[i + 1].cached = done[i].cached
              /\ done[i + 1].runs = done[i].runs
    /\ \A i \in 1..Len(done) - 1 :
         (IsClear(i) /\ ~IsClear(i + 1))
           => \A k \in 1..Len(Tables(done[i + 1])) :
                /\ done[i + 1].runs[Tables(done[i + 1])[k]] = 1
                /\ Tables(done[i + 1])[k] \in done[i + 1].cached
    /\ \A i \in 1..Len(done) : \A j \in 1..Len(done) :
         (done[i].call = done[j].call /\ done[i].args = done[j].args)
           => done[i].result = done[j].result

\* a lookup on a loaded cache, two clears, and the same lookup again
C13_Witness ==
  /\ calls.on
  /\ Len(calls.done) = 4
  /\ calls.done[1].call = "get_factor"
  /\ calls.done[1].result.exc = "none"
  /\ calls.done[1].cached # {}
  /\ IsClear(2)
  /\ IsClear(3)
  /\ calls.done[4].call = "get_factor"
  /\ calls.done[4].args = calls.done[1].args
  /\ calls.done[4].result = calls.done[1].result

(***************************************************************************)
(* Action Store and the requests that write to it                          *)
(***************************************************************************)
\* the database: the rows of action_logs and the next AUTOINCREMENT id
Database == [action_logs |-> action_logs, next_id |-> next_id]

\* insert_action_log(...): the row appended (date, location and notes, which
\* no impact depends on, are left out), and cursor.lastrowid
insert_action_log(db, category, item, amount, co2e_kg, water_l, subcategory, time_of_day) ==
  [db |-> [action_logs |->
             Append(db.action_logs,
                    [id |-> db.next_id, category |-> category, item |-> item,
                     amount |-> amount, subcategory |-> subcategory,
                     time_of_day |-> time_of_day,
                     co2e_kg |-> co2e_kg, water_l |-> water_l]),
           next_id |-> db.next_id + 1],
   lastrowid |-> db.next_id]

\* delete_action_log(action_id): the rows left, and rowcount > 0
delete_action_log(db, action_id) ==
  LET kept == {i \in 1..Len(db.action_logs) : db.action_logs[i].id # action_id}
      position(n) == CHOOSE i \in kept : Cardinality({j \in kept : j < i}) = n - 1
  IN  [db |-> [db EXCEPT !.action_logs =
                 [n \in 1..Cardinality(kept) |-> db.action_logs[position(n)]]],
       deleted |-> Cardinality(kept) < Len(db.action_logs)]

\* db.clear_all_actions(): DELETE FROM action_logs; the number of rows
\* deleted is returned and the id counter is kept
clear_all_actions(db) ==
  [db |-> [db EXCEPT !.action_logs = <<>>], value |-> Len(db.action_logs)]

\* faulty variant: the impact is calculated without the time of day
ImpactOfRequestUntimed(action, up) ==
  calculate_impact(action.category, action.item, action.amount, action.subcategory,
                   None, up)

\* the calculate_impact call of create_action
ImpactOfRequest(action, up) ==
  calculate_impact(action.category, action.item, action.amount, action.subcategory,
                   action.time_of_day, up)

\* faulty variant: the row is written before the impact is calculated
create_action_insert_first(db, action, up) ==
  LET impact == ImpactOfRequest(action, up)
      inserted ==
        insert_action_log(db, action.category, action.item, action.amount,
                          IF impact.exc = "none" THEN impact.value[1] ELSE D(0, 4),
                          IF impact.exc = "none" THEN impact.value[2] ELSE D(0, 2),
                          action.subcategory,
                          IF action.time_of_day # None THEN action.time_of_day
                          ELSE "standard")
  IN  IF impact.exc # "none"
        THEN [exc |-> "HTTPException", status_code |-> 400, db |-> inserted.db]
        ELSE [exc |-> "none",
              value |-> [id |-> inserted.lastrowid, category |-> action.category,
                         item |-> action.item, amount |-> action.amount,
                         subcategory |-> action.subcategory,
                         time_of_day |-> action.time_of_day,
                         co2e_kg |-> impact.value[1], water_l |-> impact.value[2]],
              db |-> inserted.db]

\* create_action(action) on db: the response or the HTTPException, and the
\* database it leaves
create_action(db, action, up) ==
  LET impact == ImpactOfRequest(action, up) IN
  IF impact.exc # "none"
    THEN [exc |-> "HTTPException", status_code |-> 400, db |-> db]
    ELSE LET inserted ==
               insert_action_log(db, action.category, action.item, action.amount,
                                 impact.value[1], impact.value[2], action.subcategory,
                                 IF action.time_of_day # None THEN action.time_of_day
                                 ELSE "standard")
         IN  [exc |-> "none",
              value |-> [id |-> inserted.lastrowid, category |-> action.category,
                         item |-> action.item, amount |-> action.amount,
                         subcategory |-> action.subcategory,
                         time_of_day |-> action.time_of_day,
                         co2e_kg |-> impact.value[1], water_l |-> impact.value[2]],
              db |-> inserted.db]

\* create_actions_bulk from the i-th action on; ups[i] as up in
\* calculate_impact
RECURSIVE create_actions_bulk(_, _, _, _, _)
create_actions_bulk(db, actions, ups, i, results) ==
  IF i > Len(actions) THEN [exc |-> "none", value |-> results, db |-> db]
  ELSE LET result == create_action(db, actions[i], ups[i])
       IN  IF result.exc = "HTTPException"
             THEN create_actions_bulk(db, actions, ups, i + 1, results)
             ELSE create_actions_bulk(result.db, actions, ups, i + 1,
                                      Append(results, result.value))

\* the loop of chat_message over the parsed actions from the i-th on
RECURSIVE SaveParsed(_, _, _, _, _)
SaveParsed(db, parsed_actions, ups, i, out) ==
  IF i > Len(parsed_actions) THEN [exc |-> "none", value |-> out, db |-> db]
  ELSE LET action == parsed_actions[i]
           impact == calculate_impact(action.category, action.item, action.amount,
                                      None, None, ups[i])
       IN  IF impact.exc # "none"
             THEN SaveParsed(db, parsed_actions, ups, i + 1, out)
             ELSE LET inserted ==
                        insert_action_log(db, action.category, action.item, action.amount,
                                          impact.value[1], impact.value[2], None, "standard")
                  IN  SaveParsed(inserted.db, parsed_actions, ups, i + 1,
                        [actions |-> Append(out.actions,
                                       [category |-> action.category, item |-> action.item,
                                        amount |-> action.amount,
                                        confidence |-> action.confidence]),
                         impacts |-> Append(out.impacts,
                                       [id |-> inserted.lastrowid, item |-> action.item,
                                        amount |-> action.amount,
                                        co2e_kg |-> impact.value[1],
                                        water_l |-> impact.value[2]])])

\* str.title() after replace("_", " "): a letter is upper case after a
\* character that is no letter and lower case after a letter
ItemName(item) ==
  [i \in 1..Len(item) |->
     IF item[i] = 95 THEN 32
     ELSE IF i > 1 /\ (item[i - 1] \in 65..90 \/ item[i - 1] \in 97..122)
       THEN LowerChar(item[i])
       ELSE UpperChar(item[i])]

\* zip(actions, impact_results)
Zip(actions, impact_results) ==
  [i \in 1..(IF Len(actions) < Len(impact_results) THEN Len(actions)
             ELSE Len(impact_results)) |-> <<actions[i], impact_results[i]>>]

\* total += impact.get(field, 0) over the pairs; offs[k][c] is the off of the
\* k-th addition
RECURSIVE SumOf(_, _, _, _)
SumOf(pairs, field, offs, c) ==
  IF pairs = <<>> THEN Zero
  ELSE FloatAdd(SumOf(SubSeq(pairs, 1, Len(pairs) - 1), field, offs, c),
                Get(pairs[Len(pairs)][2], field, Zero), offs[Len(pairs)][c])

\* generate_response(actions, impact_results): what the text says, one entry
\* for each block of lines, the totals and the closing tip; offs as in SumOf
generate_response(actions, impact_results, offs) ==
  IF actions = <<>> THEN [kind |-> "not_recognised"]
  ELSE LET pairs == Zip(actions, impact_results)
           total_co2e == SumOf(pairs, "co2e_kg", offs, 1)
       IN  [kind |-> "analysis",
            entries |-> [i \in 1..Len(pairs) |->
                           [item_name |-> ItemName(pairs[i][1].item),
                            amount |-> pairs[i][1].amount,
                            impact |-> pairs[i][2]]],
            total_co2e |-> total_co2e,
            total_water |-> SumOf(pairs, "water_l", offs, 2),
            tip |-> IF FloatLt(D(5, 0), total_co2e) THEN "high"
                    ELSE IF FloatLt(D(2, 0), total_co2e) THEN "fair" ELSE "good"]

\* chat_message({"message": user_message}); ups[i] as up in the i-th
\* calculate_impact, offs as in generate_response
chat_message(db, user_message, ups, offs) ==
  IF user_message = <<>>
    THEN [exc |-> "none",
          value |-> [response |-> [kind |-> "empty_message"],
                     actions |-> <<>>, impacts |-> <<>>],
          db |-> db]
    ELSE LET parsed_actions == parse_message(user_message).value
             saved == SaveParsed(db, parsed_actions, ups, 1,
                                 [actions |-> <<>>, impacts |-> <<>>])
         IN  [exc |-> "none",
              value |-> [response |-> generate_response(parsed_actions,
                                                        saved.value.impacts, offs),
                         actions |-> saved.value.actions,
                         impacts |-> saved.value.impacts],
              db |-> saved.db]

\* remove_action(action_id)
remove_action(db, action_id) ==
  LET result == delete_action_log(db, action_id) IN
  IF result.deleted
    THEN [exc |-> "none", value |-> "Action deleted successfully", db |-> result.db]
    ELSE [exc |-> "HTTPException", status_code |-> 404, db |-> db]

(***************************************************************************)
(* Inputs of the requests                                                  *)
(***************************************************************************)
MaxRows == 3
MaxBulk == 2

\* request bodies that pass the validation of ActionLogCreate
StoreRequests ==
  { [category |-> "mobility", item |-> taxi_ice, amount |-> D(5, 0),
     subcategory |-> None, time_of_day |-> None],
    [category |-> "home_energy", item |-> electricity_kwh, amount |-> D(2, 0),
     subcategory |-> None, time_of_day |-> "peak"],
    [category |-> "purchase", item |-> reusable_bag, amount |-> D(1, 0),
     subcategory |-> "household", time_of_day |-> "standard"],
    [category |-> "mobility", item |-> nonexistent_item, amount |-> D(1, 0),
     subcategory |-> None, time_of_day |-> "standard"] }

BulkRequests == UNION {[1..n -> StoreRequests] : n \in 0..MaxBulk}

\* "", "샤워 택시", "택시5km", "전기2.5", "커피 택시" and a message of no
\* keyword
ChatMessages ==
  { <<>>,
    <<49380, 50892, 32, 53469, 49884>>,
    <<53469, 49884, 53, 107, 109>>,
    <<51204, 44592, 50, 46, 53>>,
    <<52964, 54588, 32, 53469, 49884>>,
    <<95, 53, 107, 109>> }

\* the ways round() can go in the calculate_impact calls for these actions
BulkTieChoices(actions) ==
  {ups \in [1..Len(actions) -> BOOLEAN \X BOOLEAN] :
     \A i \in 1..Len(actions) :
       ups[i] \in TieChoices(get_factor(actions[i].category,
                                        SubstituteItem(actions[i].category, actions[i].item,
                                                       Get(actions[i], "time_of_day", None)),
                                        Get(actions[i], "subcategory", None)),
                             actions[i].amount)}

\* the offs of a running total of n terms, <<co2e_kg, water_l>> at every
\* addition: the first term is added to 0, which is exact
TotalOffsets(n) ==
  {offs \in [1..n -> Offs \X Offs] : n >= 1 => offs[1] = <<0, 0>>}

\* the rows a request may still add
RoomFor(n) == next_id + n - 1 <= MaxRows

\* the request ends: the response in ret, the database as the handler left it
Responded(name, request, result) ==
  /\ op' = name
  /\ args' = request
  /\ ret' = [r \in DOMAIN result \ {"db"} |-> result[r]]
  /\ action_logs' = result.db.action_logs
  /\ next_id' = result.db.next_id

\* POST /actions
CreateAction ==
  /\ op = "idle"
  /\ RoomFor(1)
  /\ \E action \in StoreRequests :
       \E ups \in BulkTieChoices(<<action>>) :
         /\ Responded("create_action", [action |-> action],
                      create_action(Database, action, ups[1]))
         /\ emission_loaded' = (emission_loaded \/ LoadsEmission(action.category))
         /\ product_loaded' = (product_loaded \/ LoadsProduct(action.category))
  /\ UNCHANGED <<threadvars, modulevars, sessionvars>>

\* POST /actions/bulk
CreateActionsBulk ==
  /\ op = "idle"
  /\ \E actions \in BulkRequests :
       /\ RoomFor(Len(actions))
       /\ \E ups \in BulkTieChoices(actions) :
            /\ Responded("create_actions_bulk", [actions |-> actions],
                         create_actions_bulk(Database, actions, ups, 1, <<>>))
            /\ emission_loaded' =
                 (emission_loaded \/ \E i \in 1..Len(actions) :
                                       LoadsEmission(actions[i].category))
            /\ product_loaded' =
                 (product_loaded \/ \E i \in 1..Len(actions) :
                                      LoadsProduct(actions[i].category))
  /\ UNCHANGED <<threadvars, modulevars, sessionvars>>

\* POST /chat
ChatMessage ==
  /\ op = "idle"
  /\ \E user_message \in ChatMessages :
       \E parsed_actions \in {IF user_message = <<>> THEN <<>>
                              ELSE parse_message(user_message).value} :
         /\ RoomFor(Len(parsed_actions))
         /\ \E ups \in BulkTieChoices(parsed_actions),
               offs \in TotalOffsets(Len(parsed_actions)) :
              /\ Responded("chat_message", [message |-> user_message],
                           chat_message(Database, user_message, ups, offs))
              /\ emission_loaded' =
                   (emission_loaded \/ \E i \in 1..Len(parsed_actions) :
                                         LoadsEmission(parsed_actions[i].category))
              /\ product_loaded' =
                   (product_loaded \/ \E i \in 1..Len(parsed_actions) :
                                        LoadsProduct(parsed_actions[i].category))
  /\ UNCHANGED <<threadvars, modulevars, sessionvars>>

\* DELETE /actions/{action_id}
RemoveAction ==
  /\ op = "idle"
  /\ \E action_id \in 1..MaxRows :
       Responded("remove_action", [action_id |-> action_id],
                 remove_action(Database, action_id))
  /\ UNCHANGED <<emission_loaded, product_loaded, threadvars, modulevars, sessionvars>>

\* db.clear_all_actions()
ClearAllActions ==
  /\ op = "idle"
  /\ Responded("clear_all_actions", <<>>,
               [exc |-> "none"] @@ clear_all_actions(Database))
  /\ UNCHANGED <<emission_loaded, product_loaded, threadvars, modulevars, sessionvars>>

\* the client takes the response
Respond ==
  /\ op # "idle"
  /\ op' = "idle"
  /\ args' = <<>>
  /\ ret' = <<>>
  /\ UNCHANGED <<emission_loaded, product_loaded, threadvars, storevars, modulevars, sessionvars>>

NextStore ==
  \/ CreateAction
  \/ CreateActionsBulk
  \/ ChatMessage
  \/ RemoveAction
  \/ ClearAllActions
  \/ Respond

SpecStore == Init /\ [][NextStore]_vars

(***************************************************************************)
(* Claims about the Action Store                                           *)
(***************************************************************************)

\* every row carries the impact calculate_impact gives for its own fields
RowsCarryTheirImpact ==
  \A i \in 1..Len(action_logs) :
    LET row == action_logs[i] IN
    \E up \in BOOLEAN \X BOOLEAN :
      calculate_impact(row.category, row.item, row.amount, row.subcategory,
                       row.time_of_day, up)
        = Returned(<<row.co2e_kg, row.water_l>>)

\* a step leaves every row it keeps as it was, and gives new rows new ids
RowsOnlyInsertedOrDeleted ==
  \A j \in 1..Len(action_logs') :
    \/ \E i \in 1..Len(action_logs) : action_logs'[j] = action_logs[i]
    \/ /\ action_logs'[j].id >= next_id
       /\ \A i \in 1..Len(action_logs) : action_logs[i].id # action_logs'[j].id

\* C15: after any sequence of create_action, create_actions_bulk,
\* chat_message and remove_action requests every stored row has co2e_kg and
\* water_l equal to calculate_impact on the row's own category, item, amount,
\* subcategory and time_of_day, and no request changes a row once it is
\* inserted: rows are only inserted or deleted.
C15_StoredImpactIsCalculated ==
  []RowsCarryTheirImpact /\ [][RowsOnlyInsertedOrDeleted]_vars

\* a row of peak electricity and a row written by the chat are stored, and
\* a row before them was deleted
C15_Witness ==
  /\ Len(action_logs) = 2
  /\ action_logs[1].id > 1
  /\ \E i \in 1..2 : action_logs[i].time_of_day = "peak" /\ action_logs[i].co2e_kg.m > 0
  /\ \E i \in 1..2 : /\ action_logs[i].item = electricity_kwh
                      /\ action_logs[i].time_of_day = "standard"
                      /\ action_logs[i].amount = D(25, 1)
  /\ op = "remove_action"
  /\ ret.exc = "none"


\* C26: when chat_message skipped a parsed action whose factor lookup
\* failed, the response still pairs every action it reports with the impact
\* computed for that action: the entry's name is the name of its impact's
\* item.
C26_ResponsePairsActionWithItsImpact ==
  (op = "chat_message" /\ ret.value.response.kind = "analysis")
    => \A i \in 1..Len(ret.value.response.entries) :
         ret.value.response.entries[i].item_name
           = ItemName(ret.value.response.entries[i].impact.item)


\* calculate_impact does not raise FactorNotFoundError for the request
Resolvable(action) ==
  get_factor(action.category,
             SubstituteItem(action.category, action.item, action.time_of_day),
             action.subcategory).exc = "none"

\* the rows after the request are the rows before it and one row for each
\* of actions, in their order, with the ids handed out in that order
RowsAppendedFor(actions) ==
  /\ Len(action_logs') = Len(action_logs) + Len(actions)
  /\ SubSeq(action_logs', 1, Len(action_logs)) = action_logs
  /\ next_id' = next_id + Len(actions)
  /\ \A k \in 1..Len(actions) :
       LET row == action_logs'[Len(action_logs) + k]
       IN  /\ row.id = next_id + k - 1
           /\ row.category = actions[k].category
           /\ row.item = actions[k].item
           /\ row.amount = actions[k].amount
           /\ row.subcategory = actions[k].subcategory

CreateActionFailsClean ==
  (op = "idle" /\ op' = "create_action")
    => IF Resolvable(args'.action)
         THEN /\ ret'.exc = "none"
              /\ RowsAppendedFor(<<args'.action>>)
              /\ ret'.value.id = next_id
         ELSE /\ ret'.exc = "HTTPException"
              /\ ret'.status_code = 400
              /\ action_logs' = action_logs
              /\ next_id' = next_id

BulkSkipsUnresolvable ==
  (op = "idle" /\ op' = "create_actions_bulk")
    => LET resolvable == SelectSeq(args'.actions, Resolvable)
       IN  /\ ret'.exc = "none"
           /\ Len(ret'.value) = Len(resolvable)
           /\ RowsAppendedFor(resolvable)
           /\ \A k \in 1..Len(resolvable) :
                /\ ret'.value[k].id = next_id + k - 1
                /\ ret'.value[k].item = resolvable[k].item

\* C27: when calculate_impact raises FactorNotFoundError inside
\* create_action no row is inserted and the request ends with HTTP 400; in
\* create_actions_bulk such actions are skipped and every other action of
\* the batch is inserted once, in batch order, so there are as many results
\* as resolvable actions.
C27_UnresolvableActionsLeaveNoRow ==
  [][CreateActionFailsClean /\ BulkSkipsUnresolvable]_vars

\* a batch whose first action has no factor and whose second has one, added
\* to a store that held a row: one result, one new row
C27_Witness ==
  /\ op = "create_actions_bulk"
  /\ Len(args.actions) = 2
  /\ ~Resolvable(args.actions[1])
  /\ Resolvable(args.actions[2])
  /\ Len(ret.value) = 1
  /\ Len(action_logs) = 2
  /\ action_logs[2].id = ret.value[1].id
  /\ action_logs[2].item = args.actions[2].item


(***************************************************************************)
(* ChatSession                                                             *)
(***************************************************************************)

\* ChatSession.add_message(role, content)
add_message(self, role, content) ==
  [self EXCEPT !.history = Append(@, [role |-> role, content |-> content])]

\* faulty variant: the impact is put in front of the earlier ones
add_action_impact_first(self, action, impact) ==
  [self EXCEPT !.daily_actions = Append(@, action),
               !.daily_impacts = <<impact>> \o @]

\* ChatSession.add_action(action, impact)
add_action(self, action, impact) ==
  [self EXCEPT !.daily_actions = Append(@, action),
               !.daily_impacts = Append(@, impact)]

\* sum(i.get(field, 0) for i in impacts); offs[k][c] is the off of the k-th
\* addition
RECURSIVE SumGet(_, _, _, _)
SumGet(impacts, field, offs, c) ==
  IF impacts = <<>> THEN Zero
  ELSE FloatAdd(SumGet(SubSeq(impacts, 1, Len(impacts) - 1), field, offs, c),
                Get(impacts[Len(impacts)], field, Zero), offs[Len(impacts)][c])

\* ChatSession.get_daily_summary(); offs as in SumGet
get_daily_summary(self, offs) ==
  LET pairs == Zip(self.daily_actions, self.daily_impacts)
  IN  [exc |-> "none",
       value |->
         [action_count |-> Len(self.daily_actions),
          total_co2e_kg |-> SumGet(self.daily_impacts, "co2e_kg", offs, 1),
          total_water_l |-> SumGet(self.daily_impacts, "water_l", offs, 2),
          actions |-> [k \in 1..Len(pairs) |->
                         [item |-> pairs[k][1].item,
                          amount |-> pairs[k][1].amount,
                          category |-> pairs[k][1].category,
                          co2e_kg |-> Get(pairs[k][2], "co2e_kg", Zero),
                          water_l |-> Get(pairs[k][2], "water_l", Zero)]]]]

\* ChatSession.clear()
clear(self) ==
  [self EXCEPT !.history = <<>>, !.daily_actions = <<>>, !.daily_impacts = <<>>]

(***************************************************************************)
(* Inputs of the ChatSession                                               *)
(***************************************************************************)
MaxTurns == 3

Roles == {"user", "assistant"}

\* "택시5km"
Contents == { <<53469, 49884, 53, 107, 109>> }

\* the actions parse_message finds in "택시5km" and in "전기2.5"
SessionActions ==
  { parse_message(<<53469, 49884, 53, 107, 109>>).value[1],
    parse_message(<<51204, 44592, 50, 46, 53>>).value[1] }

\* impact dicts: of the taxi ride, and one that gives no water_l
SessionImpacts ==
  { [item |-> taxi_ice, co2e_kg |-> D(105, 2), water_l |-> D(25, 1)],
    [co2e_kg |-> D(1, 0)] }

\* the offs of the additions of get_daily_summary, one sequence for every
\* pair of totals the float sums over these impacts can give
RECURSIVE SummaryOffsets(_)
SummaryOffsets(impacts) ==
  IF impacts = <<>> THEN {<<>>}
  ELSE LET earlier_offs == SummaryOffsets(SubSeq(impacts, 1, Len(impacts) - 1))
           candidates == {Append(e, o) : e \in earlier_offs, o \in Offs \X Offs}
           totals(offs) == <<SumGet(impacts, "co2e_kg", offs, 1),
                             SumGet(impacts, "water_l", offs, 2)>>
       IN  {CHOOSE offs \in candidates : totals(offs) = t :
              t \in {totals(offs) : offs \in candidates}}

\* session.add_message(role, content)
AddMessage ==
  /\ op = "idle"
  /\ Len(session.history) < MaxTurns
  /\ \E role \in Roles, content \in Contents :
       /\ op' = "add_message"
       /\ args' = [role |-> role, content |-> content]
       /\ ret' = Returned(None)
       /\ session' = add_message(session, role, content)
  /\ UNCHANGED <<emission_loaded, product_loaded, threadvars, storevars,
                 modulevars, added>>

\* session.add_action(action, impact)
AddAction ==
  /\ op = "idle"
  /\ Len(added) < MaxTurns
  /\ \E action \in SessionActions, impact \in SessionImpacts :
       /\ op' = "add_action"
       /\ args' = [action |-> action, impact |-> impact]
       /\ ret' = Returned(None)
       /\ session' = add_action(session, action, impact)
       /\ added' = Append(added, <<action, impact>>)
  /\ UNCHANGED <<emission_loaded, product_loaded, threadvars, storevars, modulevars>>

\* session.get_daily_summary()
GetDailySummary ==
  /\ op = "idle"
  /\ op' = "get_daily_summary"
  /\ args' = <<>>
  /\ \E offs \in SummaryOffsets(session.daily_impacts) :
       ret' = get_daily_summary(session, offs)
  /\ UNCHANGED <<emission_loaded, product_loaded, threadvars, storevars,
                 modulevars, sessionvars>>

\* session.clear()
Clear ==
  /\ op = "idle"
  /\ op' = "clear"
  /\ args' = <<>>
  /\ ret' = Returned(None)
  /\ session' = clear(session)
  /\ added' = <<>>
  /\ UNCHANGED <<emission_loaded, product_loaded, threadvars, storevars, modulevars>>

NextSession == AddMessage \/ AddAction \/ GetDailySummary \/ Clear \/ Return

SpecSession == Init /\ [][NextSession]_vars

(***************************************************************************)
(* Claims about the ChatSession                                            *)
(***************************************************************************)

\* daily_actions and daily_impacts are the actions and the impacts of the
\* add_action calls since the last clear, call by call
ImpactsBelongToActions ==
  /\ Len(session.daily_actions) = Len(added)
  /\ Len(session.daily_impacts) = Len(added)
  /\ \A k \in 1..Len(added) :
       /\ session.daily_actions[k] = added[k][1]
       /\ session.daily_impacts[k] = added[k][2]

SummaryCountsAddedActions ==
  op = "get_daily_summary" => ret.value.action_count = Len(added)

ClearEmptiesSession ==
  (op = "idle" /\ op' = "clear")
    => /\ session'.history = <<>>
       /\ session'.daily_actions = <<>>
       /\ session'.daily_impacts = <<>>

AddMessageChangesHistoryOnly ==
  (op = "idle" /\ op' = "add_message")
    => /\ session'.history
            = Append(session.history, [role |-> args'.role, content |-> args'.content])
       /\ session'.daily_actions = session.daily_actions
       /\ session'.daily_impacts = session.daily_impacts

\* C29: after any sequence of add_message, add_action and clear calls
\* daily_actions and daily_impacts have the same length and the i-th impact
\* is the one added with the i-th action; get_daily_summary reports as
\* action_count the number of add_action calls since the last clear; clear
\* empties history, daily_actions and daily_impacts; add_message changes
\* only history.
C29_SessionListsStayPaired ==
  /\ [](ImpactsBelongToActions /\ SummaryCountsAddedActions)
  /\ [][ClearEmptiesSession /\ AddMessageChangesHistoryOnly]_vars

\* a summary of two actions added with different impacts, with a message in
\* history
C29_Witness ==
  /\ op = "get_daily_summary"
  /\ ret.value.action_count = 2
  /\ session.daily_actions[1] # session.daily_actions[2]
  /\ session.daily_impacts[1] # session.daily_impacts[2]
  /\ ret.value.actions[2].item = session.daily_actions[2].item
  /\ ret.value.actions[2].co2e_kg = session.daily_impacts[2].co2e_kg
  /\ session.history # <<>>


(***************************************************************************)
(* The data of the recommendation module across calls                      *)
(*                                                                         *)
(* held is what stays reachable when a call has returned: the rule table,  *)
(* the dicts the list display of get_default_recommendations evaluates to, *)
(* and the caller's records.                                               *)
(***************************************************************************)

\* defaults[:count]
DefaultsOf(defaults, count) == Slice(defaults, count)

\* get_recommendations from the sort on, with the list that
\* get_default_recommendations builds
RecommendationsWith(defaults, daily_actions, locals, max_recommendations) ==
  IF daily_actions = <<>> THEN DefaultsOf(defaults, max_recommendations)
  ELSE LET result == Renumbered(Slice(locals.matched, max_recommendations), 0)
       IN  IF Len(result) < max_recommendations
             THEN result \o PaddedWith(
                    DefaultsOf(defaults, max_recommendations - Len(result)),
                    Len(result))
             ELSE result

\* faulty variant: the defaults are one list of the module, and the
\* priorities written on the padded entries are written on its dicts
HeldAfterAliased(h, daily_actions, value) ==
  LET padded(d) == {k \in 1..Len(value) : /\ ~IsMatched(value[k])
                                          /\ value[k].action = h.defaults[d].action}
  IN  [daily_actions |-> daily_actions,
       RECOMMENDATION_RULES |-> h.RECOMMENDATION_RULES,
       defaults |->
         [d \in 1..Len(h.defaults) |->
            IF daily_actions # <<>> /\ padded(d) # {}
              THEN [h.defaults[d] EXCEPT !.priority =
                      value[CHOOSE k \in padded(d) : TRUE].priority]
              ELSE h.defaults[d]]]

\* what is held after get_recommendations returned value: the item
\* assignments rec["priority"] = ... go to the dicts of the matches, built
\* in the call, and to the dicts get_default_recommendations built for the
\* call; the records are read only
HeldAfter(h, daily_actions, value) == [h EXCEPT !.daily_actions = daily_actions]

MaxEarlier == 2

\* lists of the taxi ride of 2.5 km and the coffee record, coffee at most
\* once: the taxi amounts are dyadic rationals, whose sums are exact, and a
\* single coffee record is added to 0, so no sum that reaches the returned
\* value is inexact
RepeatLists ==
  {l \in RecordLists :
     /\ \A k \in 1..Len(l) :
          l[k] \in {ActionRecord("mobility", taxi_ice, D(25, 1)),
                    ActionRecord("purchase", coffee, D(3, 2))}
     /\ Cardinality({k \in 1..Len(l) : l[k].item = coffee}) <= 1}

\* every addition falling on the double nearest to the decimal sum
NoOffs(daily_actions) == [k \in 1..Len(daily_actions) |-> <<0, 0>>]

\* the total that rule r multiplies and rounds: the amount of its group, or
\* the co2e_kg for a rule without alternative
RoundedFrom(action_totals, r) ==
  LET g == CHOOSE g \in 1..Len(action_totals) :
             /\ RECOMMENDATION_RULES[r].category = action_totals[g][1][1]
             /\ RECOMMENDATION_RULES[r].trigger_item = action_totals[g][1][2]
  IN  IF RECOMMENDATION_RULES[r].alternative_item # NoItem
        THEN action_totals[g][2].amount
        ELSE action_totals[g][2].co2e_kg

\* the roundings, by rule, metric and total, that stand on a decimal tie for
\* some input
TieCases ==
  UNION {{<<r, w, RoundedFrom(ActionTotals(l, NoOffs(l)), r)>> :
            r \in TieRules(ActionTotals(l, NoOffs(l)), w)} :
         l \in RepeatLists, w \in {1, 2}}

\* the directions of round() for these groups: a function of the values
\* rounded, so that equal products round alike in every call
UpsFor(action_totals) ==
  <<{r \in TieRules(action_totals, 1) :
       <<r, 1, RoundedFrom(action_totals, r)>> \in ties_up},
    {r \in TieRules(action_totals, 2) :
       <<r, 2, RoundedFrom(action_totals, r)>> \in ties_up}>>

\* get_recommendations(daily_actions, max_recommendations), one call after
\* another
RecommendAgain ==
  /\ op = "idle"
  /\ \E daily_actions \in RepeatLists :
       \E action_totals \in {ActionTotals(daily_actions, offs) :
                               offs \in SumOffsets(daily_actions)} :
         \E locals \in {MatchedAndSorted(
                          daily_actions,
                          UpsFor(action_totals)
                            \o <<OffsetsOf(daily_actions, action_totals)>>)} :
           \E max_recommendations \in Counts :
             \E value \in {RecommendationsWith(held.defaults, daily_actions, locals,
                                               max_recommendations)} :
               /\ op' = "get_recommendations"
               /\ args' = [daily_actions |-> daily_actions,
                           max_recommendations |-> max_recommendations]
               /\ ret' = [exc |-> "none", value |-> value]
               /\ held' = HeldAfter(held, daily_actions, value)
               /\ earlier' =
                    IF /\ earlier < MaxEarlier
                       /\ Cardinality({k \in 1..Len(value) : ~IsMatched(value[k])}) >= 2
                       /\ daily_actions # <<>>
                      THEN earlier + 1 ELSE earlier
               /\ emission_loaded' =
                    (emission_loaded \/ \E r \in LookupRules(action_totals) :
                                           LoadsEmission(RECOMMENDATION_RULES[r].category))
               /\ product_loaded' =
                    (product_loaded \/ \E r \in LookupRules(action_totals) :
                                          LoadsProduct(RECOMMENDATION_RULES[r].category))
  /\ UNCHANGED <<threadvars, storevars, ties_up, sessionvars>>

\* get_default_recommendations(count)
DefaultRecommendations ==
  /\ op = "idle"
  /\ \E count \in Counts :
       /\ op' = "get_default_recommendations"
       /\ args' = [count |-> count]
       /\ ret' = Returned(DefaultsOf(held.defaults, count))
  /\ UNCHANGED <<emission_loaded, product_loaded, threadvars, storevars,
                 modulevars, sessionvars>>

NextRepeat == RecommendAgain \/ DefaultRecommendations \/ Return

InitRepeat ==
  /\ CallerIdle
  /\ ThreadsAtRest
  /\ StoreEmpty
  /\ SessionNew
  /\ held = [RECOMMENDATION_RULES |-> RECOMMENDATION_RULES, defaults |-> Defaults,
             daily_actions |-> <<>>]
  /\ earlier = 0
  /\ ties_up \in SUBSET TieCases

SpecRepeat == InitRepeat /\ [][NextRepeat]_vars

\* C28: get_recommendations leaves its inputs and the shared data
\* unchanged (the caller's records, RECOMMENDATION_RULES, the default
\* list), so a call returns what the first call with these arguments
\* returns, and get_default_recommendations(n) returns entries of
\* priorities 1..n after any number of earlier get_recommendations calls
\* that renumbered padded defaults.
C28_CallsLeaveDataUnchanged ==
  /\ held.RECOMMENDATION_RULES = RECOMMENDATION_RULES
  /\ held.defaults = Defaults
  /\ op = "get_recommendations"
       => /\ held.daily_actions = args.daily_actions
          /\ ret.value
               = Assembled(args.daily_actions,
                           MatchedAndSorted(
                             args.daily_actions,
                             UpsFor(ActionTotals(args.daily_actions,
                                                 NoOffs(args.daily_actions)))
                               \o <<NoOffs(args.daily_actions)>>),
                           args.max_recommendations).value
  /\ op = "get_default_recommendations"
       => /\ \A k \in 1..Len(ret.value) : ret.value[k].priority = k
          /\ args.count \in 0..Len(Defaults) => Len(ret.value) = args.count

\* three defaults are asked for after two calls that padded, and so
\* renumbered, two defaults or more
C28_Witness ==
  /\ op = "get_default_recommendations"
  /\ earlier = 2
  /\ args.count = 3
  /\ Len(ret.value) = 3
  /\ ret.value[3].priority = 3

====
